---- MODULE Spec2Model ----
(***************************************************************************)
(* Batch imposition (src/batchimposition.ts): layout planning, placement   *)
(* mapping, per-cell rotation / duplex mirroring, gutter-bug side choice   *)
(* and the jobArrived pipeline.                                            *)
(*                                                                         *)
(* Units.  Every length the code holds in inches is an integer number of   *)
(* 1/32 inch; every length the code holds in points is an integer number   *)
(* of 1/40 point.  pt(inch) = inch * 72 therefore becomes * 90.            *)
(* All payload values drawn below are dyadic, so the floating point        *)
(* arithmetic of the code is exact on them.                                *)
(***************************************************************************)
EXTENDS Integers, Sequences, FiniteSets, TLC

VARIABLES
    call,          \* function harness: one call of a pure function, with its arguments
    ret,           \* function harness: what the call returned (Pending before it ran)
    payload,       \* jobArrived: the parsed payload
    pc,            \* jobArrived: position in the handler
    layout,        \* jobArrived: const layout
    placements,    \* jobArrived: const placements
    pages,         \* jobArrived: pages of outDoc, each a sequence of draws
    p,             \* jobArrived: production page loop index
    assets,        \* jobArrived: per item, how its artwork fetch ended ("pending" before)
    calls,         \* jobArrived: calls made on the job / collaborators
    bwipjs,        \* the optional bwip-js module: "absent", "failing" or "working"
    embedded,      \* jobArrived: what was embedded into outDoc, in order, by key
    https          \* openaiscript jobArrived: the HTTPS request and its callbacks

vars == <<call, ret, payload, pc, layout, placements, pages, p, assets, calls, bwipjs, embedded, https>>

fnVars   == <<call, ret>>
jobVars  == <<payload, pc, layout, placements, pages, p, assets, calls, bwipjs, embedded, https>>

(* ---------------------------- bounds ----------------------------------- *)

MaxRequired == 10      \* largest requiredPositions / required count drawn
MaxItems == 2          \* most order items in one payload
MaxPageCount == 2      \* most pages in one item's artwork

(* ---------------------------- helpers ---------------------------------- *)

Inch(n) == 32 * n

Max(S) == CHOOSE x \in S : \A y \in S : y <= x
Min(S) == CHOOSE x \in S : \A y \in S : x <= y

\* mutant: rounds down
CeilFloor(a, b) == a \div b

\* Math.ceil(a / b) for a >= 0, b > 0
Ceil(a, b) == (a + b - 1) \div b

\* const PT = 72, pt = (inch) => inch * PT
pt(inch) == inch * 90

\* the fixed outer sheet margin, 0.125"
outerMarginIn == 4

NoLayout == [ok |-> FALSE]

(* ---------------------------- gridFit ---------------------------------- *)

gridFit(availW, availH, cellW, cellH, gapH, gapV) ==
    [colsMax |-> Max({1, (availW + gapH) \div (cellW + gapH)}),
     rowsMax |-> Max({1, (availH + gapV) \div (cellH + gapV)})]

(* ---------------------------- planLayout ------------------------------- *)

\* mutant: the first decrement is taken without testing rowsNeeded
colsAfterRetryDecrementFirst(cols, required, rowsMax) ==
    IF cols > 1 THEN cols - 1 ELSE cols

\* while (rowsNeeded > rowsMax && cols > 1) { cols -= 1; rowsNeeded = ceil(required / cols) }
RECURSIVE colsAfterRetry(_, _, _)
colsAfterRetry(cols, required, rowsMax) ==
    IF Ceil(required, cols) > rowsMax /\ cols > 1
    THEN colsAfterRetry(cols - 1, required, rowsMax)
    ELSE cols

itemIdxs(orderItems) == 1..Len(orderItems)

planLayout(sheetWIn, sheetHIn, orderItems, requiredCountOverride) ==
    LET required == Max({1, requiredCountOverride})
        maxCutWIn == Max({orderItems[i].cutWidthInches : i \in itemIdxs(orderItems)})
        maxCutHIn == Max({orderItems[i].cutHeightInches : i \in itemIdxs(orderItems)})
        gapHIn == Max({orderItems[i].impositionMarginHorizontal : i \in itemIdxs(orderItems)} \cup {0})
        gapVIn == Max({orderItems[i].impositionMarginVertical : i \in itemIdxs(orderItems)} \cup {0})
        availWIn == sheetWIn - 2 * outerMarginIn
        availHIn == sheetHIn - 2 * outerMarginIn
    IN  IF maxCutWIn = 0 \/ maxCutHIn = 0 THEN NoLayout
        ELSE
        LET fit == gridFit(availWIn, availHIn, maxCutWIn, maxCutHIn, gapHIn, gapVIn)
            colsMax == fit.colsMax
            rowsMax == fit.rowsMax
        IN  IF colsMax * rowsMax < required THEN NoLayout
            ELSE
            LET cols == colsAfterRetry(Min({colsMax, required}), required, rowsMax)
                rowsNeeded == Ceil(required, cols)
            IN  IF rowsNeeded > rowsMax THEN NoLayout
                ELSE
                LET rows == rowsNeeded
                    cellWpt == pt(maxCutWIn)
                    cellHpt == pt(maxCutHIn)
                    gapHpt == pt(gapHIn)
                    gapVpt == pt(gapVIn)
                    arrWpt == cols * cellWpt + (cols - 1) * gapHpt
                    arrHpt == rows * cellHpt + (rows - 1) * gapVpt
                    sheetWpt == pt(sheetWIn)
                    sheetHpt == pt(sheetHIn)
                IN  [ok |-> TRUE,
                     sheetWIn |-> sheetWIn, sheetHIn |-> sheetHIn,
                     cols |-> cols, rows |-> rows,
                     cellWpt |-> cellWpt, cellHpt |-> cellHpt,
                     gapHpt |-> gapHpt, gapVpt |-> gapVpt,
                     offX |-> pt(outerMarginIn) + (sheetWpt - pt(outerMarginIn) * 2 - arrWpt) \div 2,
                     offY |-> pt(outerMarginIn) + (sheetHpt - pt(outerMarginIn) * 2 - arrHpt) \div 2,
                     waste |-> cols * rows - required,
                     orientation |-> IF sheetHIn >= sheetWIn THEN "portrait" ELSE "landscape"]

(* ------------------------ RotationResolver ----------------------------- *)

\* a payload field that is not present
Absent == "<absent>"

\* String.prototype.toLowerCase on the strings the payload may carry
toLowerCase(s) ==
    CASE s = "None" -> "none"
      [] s = "Rows" -> "rows"
      [] s = "Columns" -> "columns"
      [] s = "Cols" -> "cols"
      [] s = "EvenPages" -> "evenpages"
      [] s = "Left" -> "left"
      [] s = "Right" -> "right"
      [] s = "Top" -> "top"
      [] s = "Bottom" -> "bottom"
      [] s = "Inside" -> "inside"
      [] s = "Outside" -> "outside"
      [] s = "Center" -> "center"
      [] s = "Portrait" -> "portrait"
      [] s = "Landscape" -> "landscape"
      [] OTHER -> s

\* mode.startsWith('col')
startsWithCol(mode) == mode \in {"col", "cols", "column", "columns"}

\* mutant: the first row / column is always the unrotated one
alternateIgnoringStart(idx, startRot) == IF idx % 2 = 0 THEN 0 ELSE 180

\* ((idx % 2 === 0) ? startRot : !startRot) ? 180 : 0
alternate(idx, startRot) == IF (IF idx % 2 = 0 THEN startRot ELSE ~startRot) THEN 180 ELSE 0

computeArtRotationDegrees(it, r, c, pageIndex) ==
    LET mode == toLowerCase(IF it.artRotation = Absent THEN "None" ELSE it.artRotation)
        startRot == it.rotateFirstColumnOrRow
    IN  IF mode = "evenpages" THEN (IF pageIndex % 2 = 1 THEN 180 ELSE 0)
        ELSE IF mode = "rows" THEN alternate(r, startRot)
        ELSE IF startsWithCol(mode) THEN alternate(c, startRot)
        ELSE 0

adjustXYForRotation(x, y, width, height, deg) ==
    LET norm == ((deg % 360) + 360) % 360
    IN  IF norm = 180 THEN [x |-> x + width, y |-> y + height] ELSE [x |-> x, y |-> y]

preRotationShiftFor(deg, sxIn, syIn) ==
    LET sx == pt(sxIn)
        sy == pt(syIn)
        norm == ((deg % 360) + 360) % 360
    IN  CASE norm = 0 -> [sx |-> sx, sy |-> sy]
          [] norm = 180 -> [sx |-> -sx, sy |-> -sy]
          [] norm = 90 -> [sx |-> -sy, sy |-> sx]
          [] norm = 270 -> [sx |-> sy, sy |-> -sx]
          [] OTHER -> [sx |-> sx, sy |-> sy]

\* mutant: mirrors about the grid's far edge instead of its last cell
getEffectivePositionOffByOne(r, c, L, bindingEdge, flipPositionsThisPage) ==
    IF ~flipPositionsThisPage THEN [rEff |-> r, cEff |-> c]
    ELSE IF toLowerCase(bindingEdge) \in {"left", "right"} THEN [rEff |-> r, cEff |-> L.cols - c]
    ELSE [rEff |-> L.rows - r, cEff |-> c]

getEffectivePosition(r, c, L, bindingEdge, flipPositionsThisPage) ==
    IF ~flipPositionsThisPage THEN [rEff |-> r, cEff |-> c]
    ELSE LET edgeNorm == toLowerCase(bindingEdge)
         IN  IF edgeNorm \in {"left", "right"} THEN [rEff |-> r, cEff |-> L.cols - 1 - c]
             ELSE IF edgeNorm \in {"top", "bottom"} THEN [rEff |-> L.rows - 1 - r, cEff |-> c]
             ELSE [rEff |-> r, cEff |-> c]

getShiftAdjustments(bindingEdge, flipPositionsThisPage, imageShiftX, imageShiftY) ==
    IF ~flipPositionsThisPage THEN [shiftX |-> imageShiftX, shiftY |-> imageShiftY]
    ELSE LET edgeNorm == toLowerCase(bindingEdge)
         IN  IF edgeNorm \in {"left", "right"}
             THEN [shiftX |-> -imageShiftX, shiftY |-> imageShiftY]
             ELSE IF edgeNorm \in {"top", "bottom"}
             THEN [shiftX |-> imageShiftX, shiftY |-> -imageShiftY]
             ELSE [shiftX |-> imageShiftX, shiftY |-> imageShiftY]

\* mutant: back sheets keep the base rotation
rotationForPageNoTurn(it, rEff, cEff, flipPositionsThisPage, pageIndex) ==
    computeArtRotationDegrees(it, rEff, cEff, pageIndex)

rotationForPage(it, rEff, cEff, flipPositionsThisPage, pageIndex) ==
    LET deg == computeArtRotationDegrees(it, rEff, cEff, pageIndex)
    IN  IF flipPositionsThisPage THEN (deg + 180) % 360 ELSE deg

\* mutant: every sheet of a job with back inks counts as a back
flipPositionsEverySheet(anyBackInks, pageIndex) == anyBackInks

\* const flipPositionsThisPage = anyBackInks && (p % 2 === 1)
flipPositionsThisPage(anyBackInks, pageIndex) == anyBackInks /\ pageIndex % 2 = 1

\* the size the artwork is placed at: bleed if present, else cut
placeSize(it) ==
    LET cutW == pt(it.cutWidthInches)
        cutH == pt(it.cutHeightInches)
        bleedW == pt(IF it.bleedWidthInches # 0 THEN it.bleedWidthInches ELSE it.cutWidthInches)
        bleedH == pt(IF it.bleedHeightInches # 0 THEN it.bleedHeightInches ELSE it.cutHeightInches)
        hasBleed == bleedW > cutW \/ bleedH > cutH
    IN  [cutW |-> cutW, cutH |-> cutH, bleedW |-> bleedW, bleedH |-> bleedH,
         placeW |-> IF hasBleed THEN bleedW ELSE cutW,
         placeH |-> IF hasBleed THEN bleedH ELSE cutH]

cellCenterX(L, cEff) == L.offX + cEff * (L.cellWpt + L.gapHpt) + L.cellWpt \div 2
cellCenterY(L, rEff) == L.offY + rEff * (L.cellHpt + L.gapVpt) + L.cellHpt \div 2

\* the artwork pass of jobArrived for one placement on one sheet: effective
\* position, rotation, shift, pre-rotation delta and the drawPage origin
placeArtwork(it, r, c, L, bindingEdge, flip, pageIndex) ==
    LET eff == getEffectivePosition(r, c, L, bindingEdge, flip)
        sz == placeSize(it)
        rotDeg == rotationForPage(it, eff.rEff, eff.cEff, flip, pageIndex)
        sh == getShiftAdjustments(bindingEdge, flip, it.imageShiftX, it.imageShiftY)
        pre == preRotationShiftFor(rotDeg, sh.shiftX, sh.shiftY)
        x0 == cellCenterX(L, eff.cEff) - sz.placeW \div 2 + pre.sx
        y0 == cellCenterY(L, eff.rEff) - sz.placeH \div 2 + pre.sy
        xy == adjustXYForRotation(x0, y0, sz.placeW, sz.placeH, rotDeg)
    IN  [rEff |-> eff.rEff, cEff |-> eff.cEff, rotDeg |-> rotDeg,
         shiftX |-> sh.shiftX, shiftY |-> sh.shiftY, sx |-> pre.sx, sy |-> pre.sy,
         x0 |-> x0, y0 |-> y0, x |-> xy.x, y |-> xy.y,
         width |-> sz.placeW, height |-> sz.placeH]

(* ------------------------- RotationStableMarker ------------------------- *)

IN_ART_BARCODE_DEFAULT_W_IN == 32     \* 1.00"
IN_ART_BARCODE_DEFAULT_H_IN == 8      \* 0.25"

\* n points (a literal number of points in the source), in 1/40 pt
Pts(n) == 40 * n

clamp(n, lo, hi) == Max({lo, Min({hi, n})})
normDeg(d) == ((d % 360) + 360) % 360

\* Math.cos(deg2rad(d)) and Math.sin(deg2rad(d)) at the multiples of 90 degrees
\* a placement is rotated by, taken as the exact values
cosDeg(d) == CASE normDeg(d) = 0 -> 1 [] normDeg(d) = 180 -> -1 [] OTHER -> 0
sinDeg(d) == CASE normDeg(d) = 90 -> 1 [] normDeg(d) = 270 -> -1 [] OTHER -> 0

\* no barcode image: bwip-js absent, or makeBarcodePngBytes returned null
NoImage == [present |-> FALSE]

\* w, h of the barcode image inside targetW x targetH, aspect respected:
\* scale = Math.max(0.01, Math.min(targetW / iw, targetH / ih))
scaledImage(img, targetW, targetH) ==
    LET byWidth == targetW * img.height <= targetH * img.width
        num == IF byWidth THEN targetW ELSE targetH
        den == IF byWidth THEN img.width ELSE img.height
    IN  IF 100 * num < Pts(1) * den
        THEN [w |-> (img.width * Pts(1)) \div 100, h |-> (img.height * Pts(1)) \div 100]
        ELSE [w |-> (img.width * num) \div den, h |-> (img.height * num) \div den]

\* let size = 8; while (size > 5 && widthOfTextAtSize(text, size) > maxW) size -= 0.5
\* font.em is the width of the marker text at size 1
RECURSIVE fitTextSize(_, _, _)
fitTextSize(size, font, maxWForText) ==
    IF size > Pts(5) /\ font.em * size > maxWForText
    THEN fitTextSize(size - Pts(1) \div 2, font, maxWForText)
    ELSE size

\* centre -> bottom-left draw point of a w x h rectangle rotated by rotDeg,
\* its unrotated centre (cx0, cy0) being rotated about (cutCx, cutCy)
rotatedOrigin(cx0, cy0, w, h, cutCx, cutCy, rotDeg) ==
    LET cosT == cosDeg(rotDeg)
        sinT == sinDeg(rotDeg)
        vx == cx0 - cutCx
        vy == cy0 - cutCy
        centerX == cutCx + (vx * cosT - vy * sinT)
        centerY == cutCy + (vx * sinT + vy * cosT)
        halfWx == (w \div 2) * cosT - (h \div 2) * sinT
        halfWy == (w \div 2) * sinT + (h \div 2) * cosT
    IN  [x |-> centerX - halfWx, y |-> centerY - halfWy]

NoMarker == [drawn |-> FALSE]

\* the marker value `${it.orderId}-${it.id}`
markerValue(it) == ToString(it.orderId) \o "-" \o ToString(it.id)

\* mutant: a barcode image comes back whatever the state of bwip-js
makeBarcodePngBytesAlways(bw) == [present |-> TRUE, width |-> 400, height |-> 100]

\* makeBarcodePngBytes and embedPng: an image when bwip-js is there and
\* toBuffer does not throw, else nothing
makeBarcodePngBytes(bw) ==
    IF bw = "working" THEN [present |-> TRUE, width |-> 400, height |-> 100] ELSE NoImage

\* mutant: negative offsets are used as given
inArtOffsetUnconstrained(inRaw) == pt(inRaw)

\* const inXpt = Math.max(0, pt(+it.inArtBarcodeX || 0))
inArtOffset(inRaw) == Max({0, pt(inRaw)})

\* mutant: the marker is turned about its own unrotated lower-left corner
drawInArtBarcodeUnturnedOrigin(it, shouldDraw, rotDeg, x0, y0, cutWpt, cutHpt, bleedWpt, bleedHpt, img, font) ==
    IF ~shouldDraw \/ ~it.includeAutoShipBarcodeInArtOnLastSheet THEN NoMarker
    ELSE LET inXpt == inArtOffset(it.inArtBarcodeX)
             inYpt == inArtOffset(it.inArtBarcodeY)
             targetW == Min({pt(IN_ART_BARCODE_DEFAULT_W_IN), Max({Pts(2), cutWpt - inXpt})})
             targetH == Min({pt(IN_ART_BARCODE_DEFAULT_H_IN), Max({Pts(2), cutHpt - inYpt})})
             size == fitTextSize(Pts(8), font, targetW)
             wh == IF img.present THEN scaledImage(img, targetW, targetH)
                   ELSE [w |-> font.em * size, h |-> size]
             cutLLx == x0 + Max({0, (bleedWpt - cutWpt) \div 2})
             cutLLy == y0 + Max({0, (bleedHpt - cutHpt) \div 2})
         IN  [drawn |-> TRUE, kind |-> IF img.present THEN "image" ELSE "text",
              value |-> markerValue(it),
              x |-> cutLLx + inXpt, y |-> cutLLy + inYpt, w |-> wh.w, h |-> wh.h,
              rotate |-> normDeg(rotDeg),
              cutLLx |-> cutLLx, cutLLy |-> cutLLy,
              cutCx |-> cutLLx + cutWpt \div 2, cutCy |-> cutLLy + cutHpt \div 2,
              label |-> NoMarker]

\* the marker drawn on one placement: a barcode image (img present), with
\* the order number under it when asked for, or the text fallback
drawInArtBarcodeAtTargetPage(it, shouldDraw, rotDeg, x0, y0, cutWpt, cutHpt, bleedWpt, bleedHpt, img, font) ==
    IF ~shouldDraw \/ ~it.includeAutoShipBarcodeInArtOnLastSheet THEN NoMarker
    ELSE LET inXpt == inArtOffset(it.inArtBarcodeX)
             inYpt == inArtOffset(it.inArtBarcodeY)
             capW == Max({Pts(2), cutWpt - inXpt})
             capH == Max({Pts(2), cutHpt - inYpt})
             targetW == Min({pt(IN_ART_BARCODE_DEFAULT_W_IN), capW})
             targetH == Min({pt(IN_ART_BARCODE_DEFAULT_H_IN), capH})
             useTextFallback == ~img.present
             size == fitTextSize(Pts(8), font, targetW)
             wh == IF useTextFallback THEN [w |-> font.em * size, h |-> size]
                   ELSE scaledImage(img, targetW, targetH)
             cutLLx == x0 + Max({0, (bleedWpt - cutWpt) \div 2})
             cutLLy == y0 + Max({0, (bleedHpt - cutHpt) \div 2})
             cutCx == cutLLx + cutWpt \div 2
             cutCy == cutLLy + cutHpt \div 2
             centerX0 == cutLLx + inXpt + wh.w \div 2
             centerY0 == cutLLy + inYpt + wh.h \div 2
             draw == rotatedOrigin(centerX0, centerY0, wh.w, wh.h, cutCx, cutCy, rotDeg)
             orderNumberSize == Pts(6)
             orderNumberGap == Pts(2)
             tw == font.em * orderNumberSize
             textCenterY0 == centerY0 - wh.h \div 2 - orderNumberGap - orderNumberSize \div 2
             textDraw == rotatedOrigin(centerX0, textCenterY0, tw, orderNumberSize,
                                       cutCx, cutCy, rotDeg)
         IN  [drawn |-> TRUE, kind |-> IF useTextFallback THEN "text" ELSE "image",
              value |-> markerValue(it),
              x |-> draw.x, y |-> draw.y, w |-> wh.w, h |-> wh.h,
              rotate |-> normDeg(rotDeg),
              cutLLx |-> cutLLx, cutLLy |-> cutLLy, cutCx |-> cutCx, cutCy |-> cutCy,
              label |-> IF ~useTextFallback /\ it.includeOrderNumberWithInInArtBarcode
                        THEN [drawn |-> TRUE, x |-> textDraw.x, y |-> textDraw.y,
                              w |-> tw, h |-> orderNumberSize]
                        ELSE NoMarker]

\* the font the job embeds: the width of a marker text at size 1
jobFont == [em |-> 2]

\* mutant: the configured page is ignored, the last page is always taken
inArtTargetIdxAlwaysLast(it) == it.artPages - 1

\* the sheet the in-art barcode is due on: the configured page, else the
\* item's last page
inArtTargetIdx(it) ==
    LET cfgPage == it.inArtBarcodePage
        targetIdx == IF cfgPage > 0 THEN cfgPage - 1 ELSE it.artPages - 1
    IN  clamp(targetIdx, 0, it.artPages - 1)

\* the in-art barcode step of the artwork pass for one placed artwork
placeInArtMarker(it, art, pageIndex, img, font) ==
    LET sz == placeSize(it)
        shouldDraw == pageIndex = inArtTargetIdx(it)
    IN  drawInArtBarcodeAtTargetPage(it, shouldDraw, art.rotDeg, art.x0, art.y0,
                                     sz.cutW, sz.cutH, sz.bleedW, sz.bleedH, img, font)

(* -------------------------- GutterBugPlacer ---------------------------- *)

BUG_THICKNESS_IN == 4     \* 0.125"
BUG_STANDOFF_IN == 4      \* 0.125"

NoSide == "null"

\* String(x): an absent field reads as undefined
JsString(v) == IF v = Absent THEN "undefined" ELSE v

\* box = [xL, xR, yB, yT]: the edges of the artwork as placed
availableGapForSide(side, L, r, c, box, sheetWpt, sheetHpt) ==
    CASE side = "left" -> (IF c > 0 THEN L.gapHpt ELSE box.xL)
      [] side = "right" -> (IF c < L.cols - 1 THEN L.gapHpt ELSE sheetWpt - box.xR)
      [] side = "bottom" -> (IF r > 0 THEN L.gapVpt ELSE box.yB)
      [] side = "top" -> (IF r < L.rows - 1 THEN L.gapVpt ELSE sheetHpt - box.yT)
      [] OTHER -> 0

bugGaps(L, r, c, box, sheetWpt, sheetHpt) ==
    [s \in {"left", "right", "bottom", "top"} |->
        availableGapForSide(s, L, r, c, box, sheetWpt, sheetHpt)]

bugDistances(box, sheetWpt, sheetHpt) ==
    [left |-> box.xL, right |-> sheetWpt - box.xR, bottom |-> box.yB, top |-> sheetHpt - box.yT]

\* mutant: the sort orders of inside and outside are exchanged
pickWithinAxisSwapped(axis, inside, needPt, gaps, distances) ==
    LET first == IF axis = "h" THEN "left" ELSE "bottom"
        second == IF axis = "h" THEN "right" ELSE "top"
        firstOK == gaps[first] >= needPt
        secondOK == gaps[second] >= needPt
    IN  IF firstOK /\ secondOK
        THEN (IF ~inside
              THEN (IF distances[second] > distances[first] THEN second ELSE first)
              ELSE (IF distances[first] > distances[second] THEN second ELSE first))
        ELSE IF firstOK THEN first
        ELSE IF secondOK THEN second
        ELSE NoSide

\* mutant: the candidates are sorted but not filtered by gap
pickWithinAxisUnfiltered(axis, inside, needPt, gaps, distances) ==
    LET first == IF axis = "h" THEN "left" ELSE "bottom"
        second == IF axis = "h" THEN "right" ELSE "top"
    IN  IF inside
        THEN (IF distances[second] > distances[first] THEN second ELSE first)
        ELSE (IF distances[first] > distances[second] THEN second ELSE first)

\* candidates filtered by gap >= needPt, then sorted (stably) by distance to
\* the sheet edge: descending for inside, ascending for outside; first one wins
pickWithinAxis(axis, inside, needPt, gaps, distances) ==
    LET first == IF axis = "h" THEN "left" ELSE "bottom"
        second == IF axis = "h" THEN "right" ELSE "top"
        firstOK == gaps[first] >= needPt
        secondOK == gaps[second] >= needPt
    IN  IF firstOK /\ secondOK
        THEN (IF inside
              THEN (IF distances[second] > distances[first] THEN second ELSE first)
              ELSE (IF distances[first] > distances[second] THEN second ELSE first))
        ELSE IF firstOK THEN first
        ELSE IF secondOK THEN second
        ELSE NoSide

\* a ?? b ?? c ?? d over pickWithinAxis results
firstPick(picks) ==
    IF \E i \in 1..Len(picks) : picks[i] # NoSide
    THEN picks[Min({i \in 1..Len(picks) : picks[i] # NoSide})]
    ELSE NoSide

pickBugSide(pos, L, r, c, box, sheetWpt, sheetHpt) ==
    LET thickPt == pt(BUG_THICKNESS_IN)
        wantStandOffPt == pt(BUG_STANDOFF_IN)
        norm == toLowerCase(IF pos = "" THEN "Inside" ELSE pos)
        gaps == bugGaps(L, r, c, box, sheetWpt, sheetHpt)
        distances == bugDistances(box, sheetWpt, sheetHpt)
        horizMax == Max({gaps["left"], gaps["right"]})
        vertMax == Max({gaps["top"], gaps["bottom"]})
        horizOK == horizMax >= thickPt
        vertOK == vertMax >= thickPt
        inside == norm = "inside"
        needFull == thickPt + wantStandOffPt
        needMin == thickPt
        axis == IF horizMax >= vertMax THEN "h" ELSE "v"
        other == IF axis = "h" THEN "v" ELSE "h"
    IN  IF norm \in {"left", "right", "top", "bottom"}
        THEN (IF gaps[norm] >= thickPt THEN norm ELSE NoSide)
        ELSE IF horizOK /\ vertOK
        THEN firstPick(<<pickWithinAxis(axis, inside, needFull, gaps, distances),
                         pickWithinAxis(other, inside, needFull, gaps, distances),
                         pickWithinAxis(axis, inside, needMin, gaps, distances),
                         pickWithinAxis(other, inside, needMin, gaps, distances)>>)
        ELSE IF horizOK
        THEN firstPick(<<pickWithinAxis("h", inside, needFull, gaps, distances),
                         pickWithinAxis("h", inside, needMin, gaps, distances)>>)
        ELSE IF vertOK
        THEN firstPick(<<pickWithinAxis("v", inside, needFull, gaps, distances),
                         pickWithinAxis("v", inside, needMin, gaps, distances)>>)
        ELSE NoSide

NoStrip == [drawn |-> FALSE, side |-> NoSide]

\* the strip drawGutterBug draws for the item placed at effective cell (r, c),
\* or NoStrip when it returns before drawing
drawGutterBug(it, L, r, c, placeW, placeH, sheetWpt, sheetHpt) ==
    IF ~it.includeGutterBug THEN NoStrip
    ELSE
    LET cx == cellCenterX(L, c)
        cy == cellCenterY(L, r)
        box == [xL |-> cx - placeW \div 2, xR |-> cx + placeW \div 2,
                yB |-> cy - placeH \div 2, yT |-> cy + placeH \div 2]
        side == pickBugSide(JsString(it.bugPosition), L, r, c, box, sheetWpt, sheetHpt)
    IN  IF side = NoSide THEN NoStrip
        ELSE
        LET thickPt == pt(BUG_THICKNESS_IN)
            wantStandOffPt == pt(BUG_STANDOFF_IN)
            availGap == availableGapForSide(side, L, r, c, box, sheetWpt, sheetHpt)
            standOffPt == Min({wantStandOffPt, Max({0, availGap - thickPt})})
        IN  [drawn |-> TRUE, side |-> side, availGap |-> availGap, standOffPt |-> standOffPt,
             bx |-> CASE side = "left" -> box.xL - thickPt - standOffPt
                      [] side = "right" -> box.xR + standOffPt
                      [] OTHER -> box.xL,
             by |-> CASE side = "top" -> box.yT + standOffPt
                      [] side = "bottom" -> box.yB - thickPt - standOffPt
                      [] OTHER -> box.yB,
             bw |-> IF side \in {"left", "right"} THEN thickPt ELSE placeW,
             bh |-> IF side \in {"left", "right"} THEN placeH ELSE thickPt,
             vertical |-> side \in {"left", "right"},
             box |-> box]

\* what drawGutterBug puts on the white strip: the barcode image, when one
\* is wanted and there is one, and the artwork path as text
drawBugContent(it, strip, L, r, c, bw) ==
    LET PAD == Pts(2)
        img == IF it.includeAutoShipBarcodeInBug THEN makeBarcodePngBytes(bw) ELSE NoImage
        leftW == Max({0, cellCenterX(L, c) - strip.bx - PAD})
        botH == Max({0, cellCenterY(L, r) - strip.by - PAD})
        room == IF strip.vertical THEN botH > 0 ELSE leftW > 0
    IN  [barcode |-> IF img.present /\ room THEN "image" ELSE "none",
         text |-> it.localArtworkPath]

\* the barcode of a cover overlay: the image, or the marker value as text
drawLavenderOverlay(it, bw) ==
    LET barcodeImg == IF bw # "absent" THEN makeBarcodePngBytes(bw) ELSE NoImage
    IN  [barcode |-> IF barcodeImg.present THEN "image" ELSE "text",
         value |-> markerValue(it)]

(* ---------------------------- CropMarkRenderer --------------------------- *)

cropGapIn == 8      \* 0.25": the offset from the trim both crop passes pass
cropLenIn == 4      \* 0.125": the perimeter tick length both crop passes pass

\* x * 0.4; exact here, every gap and offset being a multiple of 1/32 inch
TwoFifths(x) == (x * 2) \div 5

\* mutant: the interior length is not clamped at 0, as in the single-item
\* imposition's drawIndividualCrops
drawIndividualCropsUnclamped(cutW, cutH, gapIn, lenIn, isLeftEdge, isRightEdge, isBottomEdge, isTopEdge, gapHorizontal, gapVertical) ==
    LET off == pt(gapIn)
        perimeterLen == pt(lenIn)
        interiorLenH == Min({pt(1), TwoFifths(gapHorizontal - off * 2)})
        interiorLenV == Min({pt(1), TwoFifths(gapVertical - off * 2)})
    IN  [off |-> off,
         topLen |-> IF isTopEdge THEN perimeterLen ELSE interiorLenV,
         leftLen |-> IF isLeftEdge THEN perimeterLen ELSE interiorLenH,
         rightLen |-> IF isRightEdge THEN perimeterLen ELSE interiorLenH,
         bottomLen |-> IF isBottomEdge THEN perimeterLen ELSE interiorLenV]

\* mutant: every tick gets the perimeter length
drawIndividualCropsAllPerimeter(cutW, cutH, gapIn, lenIn, isLeftEdge, isRightEdge, isBottomEdge, isTopEdge, gapHorizontal, gapVertical) ==
    [off |-> pt(gapIn), topLen |-> pt(lenIn), leftLen |-> pt(lenIn),
     rightLen |-> pt(lenIn), bottomLen |-> pt(lenIn)]

\* the tick lengths of the eight lines drawn around one cut box: top and
\* bottom ticks are vertical lines, left and right ticks horizontal ones
drawIndividualCrops(cutW, cutH, gapIn, lenIn, isLeftEdge, isRightEdge, isBottomEdge, isTopEdge, gapHorizontal, gapVertical) ==
    LET off == pt(gapIn)
        perimeterLen == pt(lenIn)
        maxInteriorLenH == Max({0, TwoFifths(gapHorizontal - off * 2)})
        maxInteriorLenV == Max({0, TwoFifths(gapVertical - off * 2)})
        interiorLenH == Min({pt(1), maxInteriorLenH})
        interiorLenV == Min({pt(1), maxInteriorLenV})
    IN  [off |-> off,
         topLen |-> IF isTopEdge THEN perimeterLen ELSE interiorLenV,
         leftLen |-> IF isLeftEdge THEN perimeterLen ELSE interiorLenH,
         rightLen |-> IF isRightEdge THEN perimeterLen ELSE interiorLenH,
         bottomLen |-> IF isBottomEdge THEN perimeterLen ELSE interiorLenV]

(* ------------- page range extractor: parsePageRanges ------------------- *)
(* src/unnamed/part_000 (the same function is in src/pdfeditor.ts).        *)
(* A text is a sequence of characters, each a one-character string; the    *)
(* dash characters outside ASCII are written by their code point, e.g.     *)
(* "U+2013" for the en dash.  The texts drawn below hold digits, "-", ",", *)
(* ".", "[", "]", the double quote, the space and the letters of all, end *)
(* and null; none holds an exponent.                                       *)

digitValue(ch) ==
    CASE ch = "0" -> 0 [] ch = "1" -> 1 [] ch = "2" -> 2 [] ch = "3" -> 3 [] ch = "4" -> 4
      [] ch = "5" -> 5 [] ch = "6" -> 6 [] ch = "7" -> 7 [] ch = "8" -> 8 [] ch = "9" -> 9

\* \d
isDigit(ch) == ch \in {"0", "1", "2", "3", "4", "5", "6", "7", "8", "9"}

\* \s
isSpace(ch) == ch = " "

\* the /i flag
lowerCase(ch) ==
    CASE ch = "A" -> "a" [] ch = "L" -> "l" [] ch = "E" -> "e" [] ch = "N" -> "n"
      [] ch = "D" -> "d" [] OTHER -> ch

ignoreCase(s) == [i \in 1..Len(s) |-> lowerCase(s[i])]

\* parseInt(digits, 10) of a run of digits
RECURSIVE parseInt(_)
parseInt(s) ==
    IF s = <<>> THEN 0
    ELSE 10 * parseInt(SubSeq(s, 1, Len(s) - 1)) + digitValue(s[Len(s)])

\* the index after the run of \s that starts at i
RECURSIVE skipSpaces(_, _)
skipSpaces(s, i) == IF i <= Len(s) /\ isSpace(s[i]) THEN skipSpaces(s, i + 1) ELSE i

\* the index after the run of \d that starts at i
RECURSIVE skipDigits(_, _)
skipDigits(s, i) == IF i <= Len(s) /\ isDigit(s[i]) THEN skipDigits(s, i + 1) ELSE i

\* the index before the run of \s that ends at i
RECURSIVE skipSpacesBack(_, _)
skipSpacesBack(s, i) == IF i >= 1 /\ isSpace(s[i]) THEN skipSpacesBack(s, i - 1) ELSE i

\* String.prototype.trim
trim(s) ==
    LET a == skipSpaces(s, 1)
        b == skipSpacesBack(s, Len(s))
    IN  IF a > b THEN <<>> ELSE SubSeq(s, a, b)

\* normalizeDashes: figure dash, en dash, em dash and minus sign become "-"
normalizeDashes(s) ==
    [i \in 1..Len(s) |-> IF s[i] \in {"U+2012", "U+2013", "U+2014", "U+2212"} THEN "-" ELSE s[i]]

\* ---- JSON.parse, on the texts described above ----

JsonFail == [ok |-> FALSE]

JsonOk(v, next) == [ok |-> TRUE, val |-> v, next |-> next]

\* 10^k
RECURSIVE pow10(_)
pow10(k) == IF k = 0 THEN 1 ELSE 10 * pow10(k - 1)

\* number: -? (0 | [1-9][0-9]*) (. [0-9]+)?, held as the fraction n / d
jsonNumber(s, i) ==
    LET neg  == i <= Len(s) /\ s[i] = "-"
        d0   == IF neg THEN i + 1 ELSE i
        d1   == IF d0 <= Len(s) /\ s[d0] = "0" THEN d0 + 1 ELSE skipDigits(s, d0)
        frac == d1 <= Len(s) /\ s[d1] = "."
        f1   == IF frac THEN skipDigits(s, d1 + 1) ELSE d1
        v    == parseInt(SubSeq(s, d0, d1 - 1))
        w    == IF frac THEN parseInt(SubSeq(s, d1 + 1, f1 - 1)) ELSE 0
        den  == IF frac THEN pow10(f1 - d1 - 1) ELSE 1
        num  == v * den + w
    IN  IF d1 = d0 \/ (frac /\ f1 = d1 + 1) THEN JsonFail
        ELSE JsonOk([t |-> "number", n |-> IF neg THEN 0 - num ELSE num, d |-> den], f1)

\* Math.floor of a JSON number
floorOf(v) == v.n \div v.d

\* the index of the first double quote at or after i (Len(s) + 1: none)
RECURSIVE nextQuote(_, _)
nextQuote(s, i) == IF i <= Len(s) /\ s[i] # "\"" THEN nextQuote(s, i + 1) ELSE i

\* string: the characters between two double quotes
jsonString(s, i) ==
    LET q == nextQuote(s, i + 1)
    IN  IF q > Len(s) THEN JsonFail
        ELSE JsonOk([t |-> "string", s |-> SubSeq(s, i + 1, q - 1)], q + 1)

RECURSIVE jsonValue(_, _)
RECURSIVE jsonElements(_, _, _)

\* value: array | string | null | number, after optional white space
jsonValue(s, i) ==
    LET j == skipSpaces(s, i)
    IN  IF j > Len(s) THEN JsonFail
        ELSE IF s[j] = "[" THEN
            LET k == skipSpaces(s, j + 1)
            IN  IF k <= Len(s) /\ s[k] = "]"
                THEN JsonOk([t |-> "array", items |-> <<>>], k + 1)
                ELSE jsonElements(s, j + 1, <<>>)
        ELSE IF s[j] = "\"" THEN jsonString(s, j)
        ELSE IF s[j] = "n" THEN
            IF j + 3 <= Len(s) /\ SubSeq(s, j, j + 3) = <<"n", "u", "l", "l">>
            THEN JsonOk([t |-> "null"], j + 4)
            ELSE JsonFail
        ELSE jsonNumber(s, j)

\* elements: value ("," value)* "]"
jsonElements(s, i, acc) ==
    LET v == jsonValue(s, i)
    IN  IF ~v.ok THEN JsonFail
        ELSE LET k == skipSpaces(s, v.next)
             IN  IF k > Len(s) THEN JsonFail
                 ELSE IF s[k] = "," THEN jsonElements(s, k + 1, Append(acc, v.val))
                 ELSE IF s[k] = "]"
                      THEN JsonOk([t |-> "array", items |-> Append(acc, v.val)], k + 1)
                 ELSE JsonFail

\* JSON.parse(text): a value and nothing but white space after it, else a throw
JSONparse(s) ==
    LET v == jsonValue(s, 1)
    IN  IF v.ok /\ skipSpaces(s, v.next) > Len(s) THEN v ELSE JsonFail

\* ---- toIndexOrMarker ----

IndexNull == [k |-> "null"]
IndexEnd  == [k |-> "END"]
IndexNaN  == [k |-> "NaN"]
IndexOf(n) == [k |-> "number", n |-> n]

toIndexOrMarker(v) ==
    IF v.t = "null" THEN IndexNull
    ELSE IF v.t = "string" THEN
        IF v.s = <<>> THEN IndexNull
        ELSE LET t == trim(v.s)
             IN  IF ignoreCase(t) = <<"e", "n", "d">> THEN IndexEnd
                 ELSE IF t # <<>> /\ skipDigits(t, 1) > Len(t) THEN IndexOf(parseInt(t))
                 ELSE IndexNaN
    ELSE IF v.t = "number" THEN IndexOf(floorOf(v))
    ELSE IndexNaN

\* ---- the JSON forms of parsePageRanges ----

\* addNum: the pages one JSON number adds
addNum(v, pageCount) ==
    IF v.n <= 0 THEN {}
    ELSE IF v.n > pageCount * v.d THEN {}
    ELSE {floorOf(v)}

\* the pages one [a, b] or [a] item adds
jsonTuplePages(item, pageCount) ==
    LET a0 == item[1]
        b0 == IF Len(item) = 2 THEN item[2] ELSE item[1]
        a1 == toIndexOrMarker(a0)
        b1 == toIndexOrMarker(b0)
        a2 == IF a1.k = "END" THEN IndexOf(pageCount) ELSE a1
        b2 == IF b1.k = "END" THEN IndexOf(pageCount) ELSE b1
        a  == IF a2.k = "null" THEN IndexOf(1) ELSE a2
        b  == IF b2.k = "null" THEN IndexOf(pageCount) ELSE b2
    IN  IF a.k = "NaN" \/ b.k = "NaN" THEN {}
        ELSE LET A0 == Max({1, a.n})
                 B0 == b.n
                 A  == IF A0 > B0 THEN B0 ELSE A0
                 B  == IF A0 > B0 THEN A0 ELSE B0
             IN  {n \in A..B : n <= pageCount}

\* the pages one item of a JSON array adds
jsonItemPages(item, pageCount) ==
    IF item.t = "number" THEN addNum(item, pageCount)
    ELSE IF item.t = "array" /\ Len(item.items) \in {1, 2}
         THEN jsonTuplePages(item.items, pageCount)
    ELSE {}

\* ---- the string list forms of parsePageRanges ----

\* replace(/^\[\s*|\s*\]$/g, '')
stripWholeBrackets(s) ==
    LET a    == IF s # <<>> /\ s[1] = "[" THEN skipSpaces(s, 2) ELSE 1
        rest == SubSeq(s, a, Len(s))
    IN  IF rest # <<>> /\ rest[Len(rest)] = "]"
        THEN SubSeq(rest, 1, skipSpacesBack(rest, Len(rest) - 1))
        ELSE rest

\* token.replace(/^\[|\]$/g, '')
stripTokenBrackets(s) ==
    LET rest == IF s # <<>> /\ s[1] = "[" THEN Tail(s) ELSE s
    IN  IF rest # <<>> /\ rest[Len(rest)] = "]" THEN SubSeq(rest, 1, Len(rest) - 1) ELSE rest

\* String.prototype.split(',')
RECURSIVE split(_, _)
split(s, cur) ==
    IF s = <<>> THEN <<cur>>
    ELSE IF Head(s) = "," THEN <<cur>> \o split(Tail(s), <<>>)
    ELSE split(Tail(s), Append(cur, Head(s)))

NoMatch == [m |-> FALSE]

\* /^(\d+)\s*[,-]\s*$/  (seps = {",", "-"}),  /^(\d+)\s*,$/ without the \s* (seps = {","})
matchDigitsSep(s, seps, spaced) ==
    LET i1 == skipDigits(s, 1)
        i2 == IF spaced THEN skipSpaces(s, i1) ELSE i1
        i3 == IF spaced THEN skipSpaces(s, i2 + 1) ELSE i2 + 1
    IN  IF i1 > 1 /\ i2 <= Len(s) /\ s[i2] \in seps /\ i3 > Len(s)
        THEN [m |-> TRUE, a |-> parseInt(SubSeq(s, 1, i1 - 1))]
        ELSE NoMatch

\* /^[,-]\s*(\d+)$/  (seps = {",", "-"}),  /^\-\s*(\d+)$/,  /^,(\d+)$/ without the \s*
matchSepDigits(s, seps, spaced) ==
    LET i1 == IF spaced THEN skipSpaces(s, 2) ELSE 2
        i2 == skipDigits(s, i1)
    IN  IF s # <<>> /\ s[1] \in seps /\ i2 > i1 /\ i2 > Len(s)
        THEN [m |-> TRUE, b |-> parseInt(SubSeq(s, i1, i2 - 1))]
        ELSE NoMatch

\* /^(\d+)\s*\-\s*(?:end)?$/i  (endOptional),  /^(\d+)\s*\-\s*end$/i  (otherwise)
matchDigitsDashEnd(s, endOptional) ==
    LET i1   == skipDigits(s, 1)
        i2   == skipSpaces(s, i1)
        i3   == skipSpaces(s, i2 + 1)
        tail == SubSeq(s, i3, Len(s))
    IN  IF /\ i1 > 1 /\ i2 <= Len(s) /\ s[i2] = "-"
           /\ \/ ignoreCase(tail) = <<"e", "n", "d">>
              \/ endOptional /\ tail = <<>>
        THEN [m |-> TRUE, a |-> parseInt(SubSeq(s, 1, i1 - 1))]
        ELSE NoMatch

\* /^(\d+)\s*\-\s*(\d+)$/
matchClosedRange(s) ==
    LET i1 == skipDigits(s, 1)
        i2 == skipSpaces(s, i1)
        i3 == skipSpaces(s, i2 + 1)
        i4 == skipDigits(s, i3)
    IN  IF i1 > 1 /\ i2 <= Len(s) /\ s[i2] = "-" /\ i4 > i3 /\ i4 > Len(s)
        THEN [m |-> TRUE, a |-> parseInt(SubSeq(s, 1, i1 - 1)),
                          b |-> parseInt(SubSeq(s, i3, i4 - 1))]
        ELSE NoMatch

\* the pages one comma-separated token adds
tokenPages(token0, pageCount) ==
    LET token  == stripTokenBrackets(trim(token0))
        toEnd0 == matchDigitsDashEnd(token, TRUE)
        toEnd  == IF toEnd0.m THEN toEnd0 ELSE matchDigitsSep(token, {","}, FALSE)
        from0  == matchSepDigits(token, {"-"}, TRUE)
        from   == IF from0.m THEN from0 ELSE matchSepDigits(token, {","}, FALSE)
        closed == matchClosedRange(token)
        end    == matchDigitsDashEnd(token, FALSE)
    IN  IF token = <<>> THEN {}
        ELSE IF toEnd.m THEN Max({1, toEnd.a})..pageCount
        ELSE IF from.m THEN 1..Min({pageCount, from.b})
        ELSE IF closed.m THEN
            LET a == Min({closed.a, closed.b})
                b == Max({closed.a, closed.b})
            IN  {n \in Max({1, a})..b : n <= pageCount}
        ELSE IF skipDigits(token, 1) > Len(token) THEN
            LET n == parseInt(token)
            IN  IF n <= 0 \/ n > pageCount THEN {} ELSE {n}
        ELSE IF end.m THEN Max({1, end.a})..pageCount
        ELSE {}

\* parsePageRanges after the JSON attempt
stringListPages(text, pageCount) ==
    LET cleanedWhole == stripWholeBrackets(normalizeDashes(text))
        toEnd == matchDigitsSep(cleanedWhole, {",", "-"}, TRUE)
        from  == matchSepDigits(cleanedWhole, {",", "-"}, TRUE)
        parts == split(cleanedWhole, <<>>)
    IN  IF toEnd.m THEN Max({1, toEnd.a})..pageCount
        ELSE IF from.m THEN 1..Min({pageCount, from.b})
        ELSE UNION {tokenPages(parts[k], pageCount) : k \in DOMAIN parts}

\* parsePageRanges(raw, pageCount, logger): the set it resolves
parsePageRanges(raw, pageCount) ==
    IF trim(raw) = <<>> THEN {}
    ELSE LET text == trim(raw)
             j    == JSONparse(text)
         IN  IF ignoreCase(text) = <<"a", "l", "l">> THEN 1..pageCount
             ELSE IF j.ok /\ j.val.t = "number" THEN addNum(j.val, pageCount)
             ELSE IF j.ok /\ j.val.t = "array"
                  THEN UNION {jsonItemPages(j.val.items[k], pageCount) :
                                  k \in DOMAIN j.val.items}
             ELSE stringListPages(text, pageCount)

\* String(mode || 'keep').toLowerCase() on the page modes a job may carry
pageModeLower(mode) ==
    CASE mode = "" -> "keep"
      [] mode = "Remove" -> "remove"
      [] mode = "KEEP" -> "keep"
      [] OTHER -> mode

\* Array.from(keep).sort((a, b) => a - b)
RECURSIVE sortAscending(_)
sortAscending(S) ==
    IF S = {} THEN <<>>
    ELSE LET least == Min(S) IN <<least>> \o sortAscending(S \ {least})

\* computeKeptPages(mode, selection, pageCount)
computeKeptPages(mode, selection, pageCount) ==
    LET m    == pageModeLower(mode)
        keep == IF m = "remove" THEN {i \in 1..pageCount : i \notin selection}
                ELSE selection
    IN  sortAscending(keep)

(* ------------------- function harness: planLayout --------------------- *)

Pending == [done |-> FALSE]

PlanItem(cw, ch, gh, gv) ==
    [cutWidthInches |-> cw, cutHeightInches |-> ch,
     impositionMarginHorizontal |-> gh, impositionMarginVertical |-> gv]

\* the first item of a planLayout call
PlanFirstItems ==
    {PlanItem(cw, ch, gh, gv) : cw \in {0, Inch(2), Inch(3) + 16}, ch \in {Inch(2), Inch(4)},
                                gh \in {0, 4, 16}, gv \in {0, 4, 16}}

\* the items that may follow it
PlanMoreItems == {PlanItem(Inch(1), Inch(1), 0, 0), PlanItem(Inch(4), Inch(3), 8, 0)}

RECURSIVE SeqsUpTo(_, _)
SeqsUpTo(S, n) ==
    IF n = 0 THEN {<<>>}
    ELSE LET shorter == SeqsUpTo(S, n - 1)
         IN  shorter \cup {Append(s, x) : s \in {t \in shorter : Len(t) = n - 1}, x \in S}

PlanSheetDims == {Inch(2), Inch(5), Inch(13), Inch(19)}

PlanCalls ==
    {[fn |-> "planLayout", sheetWIn |-> w, sheetHIn |-> h,
      orderItems |-> <<first>> \o more, requiredCountOverride |-> n] :
        w \in PlanSheetDims, h \in PlanSheetDims, first \in PlanFirstItems,
        more \in SeqsUpTo(PlanMoreItems, MaxItems - 1), n \in 0..MaxRequired}

CallPlanLayout ==
    /\ call.fn = "planLayout"
    /\ ret = Pending
    /\ ret' = [done |-> TRUE,
               layout |-> planLayout(call.sheetWIn, call.sheetHIn,
                                      call.orderItems, call.requiredCountOverride)]
    /\ UNCHANGED <<call, jobVars>>

\* no HTTPS request was made
NoRequest == [socket |-> "none"]

JobIdle ==
    /\ payload = <<>>
    /\ pc = "idle"
    /\ layout = NoLayout
    /\ placements = <<>>
    /\ pages = <<>>
    /\ p = 0
    /\ assets = <<>>
    /\ calls = <<>>
    /\ bwipjs = "absent"
    /\ embedded = <<>>
    /\ https = NoRequest

(* --------------- function harness: per-cell functions ------------------ *)

MaxPageIndex == 3      \* largest artwork page index a per-cell call is made with

BaseItem ==
    [id |-> 1,
     cutWidthInches |-> Inch(2), cutHeightInches |-> Inch(2),
     bleedWidthInches |-> 0, bleedHeightInches |-> 0,
     impositionMarginHorizontal |-> 0, impositionMarginVertical |-> 0,
     artRotation |-> Absent, rotateFirstColumnOrRow |-> FALSE,
     imageShiftX |-> 0, imageShiftY |-> 0,
     includeGutterBug |-> FALSE, bugPosition |-> Absent,
     includeAutoShipBarcodeInBug |-> FALSE, localArtworkPath |-> "art.pdf",
     inksBack |-> 0, includeCoverSheet |-> FALSE,
     bindingEdge |-> Absent,
     impositionWidth |-> 0, impositionHeight |-> 0, impositionOrientation |-> Absent,
     includeAutoShipBarcodeInArtOnLastSheet |-> FALSE, inArtBarcodePage |-> 0,
     inArtBarcodeX |-> 0, inArtBarcodeY |-> 0,
     includeOrderNumberWithInInArtBarcode |-> FALSE, orderId |-> 7,
     artPages |-> 1]

ArtRotations == {Absent, "None", "Rows", "Columns", "Cols", "EvenPages", "Center"}
BindingEdges == {"Left", "Right", "Top", "Bottom"}
BugPositions == {Absent, "", "Left", "Right", "Top", "Bottom", "Inside", "Outside", "Center"}

RotationItems ==
    {[BaseItem EXCEPT !.artRotation = m, !.rotateFirstColumnOrRow = s] :
        m \in ArtRotations, s \in BOOLEAN}

RotationCalls ==
    {[fn |-> "computeArtRotationDegrees", it |-> it, r |-> r, c |-> c, pageIndex |-> q] :
        it \in RotationItems, r \in 0..3, c \in 0..3, q \in 0..MaxPageIndex}

CallComputeArtRotationDegrees ==
    /\ call.fn = "computeArtRotationDegrees"
    /\ ret = Pending
    /\ ret' = [done |-> TRUE,
               deg |-> computeArtRotationDegrees(call.it, call.r, call.c, call.pageIndex)]
    /\ UNCHANGED <<call, jobVars>>

\* layouts of 1 to MaxRequired 2" x 2" cells on a 13" x 19" sheet
ArtLayouts ==
    {planLayout(Inch(13), Inch(19), <<BaseItem>>, n) : n \in {1, 4, 7, MaxRequired}}

ArtItems ==
    {[it EXCEPT !.imageShiftX = sh[1], !.imageShiftY = sh[2]] :
        it \in RotationItems, sh \in {<<0, 0>>, <<4, 8>>, <<-2, 0>>}}

ArtCalls ==
    {[fn |-> "placeArtwork", it |-> it, layout |-> L, r |-> rc[1], c |-> rc[2],
      bindingEdge |-> e, anyBackInks |-> b, pageIndex |-> q] :
        it \in ArtItems, L \in ArtLayouts, rc \in (0..1) \X (0..5),
        e \in BindingEdges, b \in BOOLEAN, q \in 0..MaxPageIndex}

CallPlaceArtwork ==
    /\ call.fn = "placeArtwork"
    /\ ret = Pending
    /\ call.r < call.layout.rows
    /\ call.c < call.layout.cols
    /\ LET flip == flipPositionsThisPage(call.anyBackInks, call.pageIndex)
       IN  ret' = [done |-> TRUE, flip |-> flip,
                   art |-> placeArtwork(call.it, call.r, call.c, call.layout,
                                        call.bindingEdge, flip, call.pageIndex)]
    /\ UNCHANGED <<call, jobVars>>

\* small sheets, where the boundary gaps are close to the strip thickness
BugItems ==
    {[BaseItem EXCEPT !.impositionMarginHorizontal = gh, !.impositionMarginVertical = gv,
                      !.bleedWidthInches = bl, !.bleedHeightInches = bl,
                      !.includeGutterBug = g, !.bugPosition = pos] :
        gh \in {0, 2, 4, 8}, gv \in {0, 2, 4, 8}, bl \in {0, Inch(2) + 8},
        g \in BOOLEAN, pos \in BugPositions}

BugSheets == {<<Inch(5), Inch(5)>>, <<Inch(4) + 8, Inch(4) + 8>>, <<Inch(5), Inch(4) + 8>>}

BugCalls ==
    {[fn |-> "drawGutterBug", it |-> it, layout |-> planLayout(sh[1], sh[2], <<it>>, n),
      r |-> rc[1], c |-> rc[2]] :
        it \in BugItems, sh \in BugSheets, n \in {1, 2, 4}, rc \in (0..1) \X (0..1)}

CallDrawGutterBug ==
    /\ call.fn = "drawGutterBug"
    /\ ret = Pending
    /\ call.layout.ok
    /\ call.r < call.layout.rows
    /\ call.c < call.layout.cols
    /\ LET sz == placeSize(call.it)
       IN  ret' = [done |-> TRUE,
                   strip |-> drawGutterBug(call.it, call.layout, call.r, call.c,
                                           sz.placeW, sz.placeH,
                                           pt(call.layout.sheetWIn), pt(call.layout.sheetHIn))]
    /\ UNCHANGED <<call, jobVars>>

\* inter-cell gaps from none to 5/8", in 1/32 inch
CropGaps == {0, 2, 4, 8, 16, 17, 20}

CropCalls ==
    {[fn |-> "drawIndividualCrops", cutW |-> pt(Inch(2)), cutH |-> pt(Inch(2)),
      isLeftEdge |-> e[1], isRightEdge |-> e[2], isBottomEdge |-> e[3], isTopEdge |-> e[4],
      gapHorizontal |-> pt(gh), gapVertical |-> pt(gv)] :
        e \in BOOLEAN \X BOOLEAN \X BOOLEAN \X BOOLEAN, gh \in CropGaps, gv \in CropGaps}

\* drawIndividualCrops(page, cx, cy, cutW, cutH, 0.25, 0.125, 0.5, edges, gapHpt, gapVpt)
CallDrawIndividualCrops ==
    /\ call.fn = "drawIndividualCrops"
    /\ ret = Pending
    /\ ret' = [done |-> TRUE,
               ticks |-> drawIndividualCrops(call.cutW, call.cutH, cropGapIn, cropLenIn,
                                             call.isLeftEdge, call.isRightEdge,
                                             call.isBottomEdge, call.isTopEdge,
                                             call.gapHorizontal, call.gapVertical)]
    /\ UNCHANGED <<call, jobVars>>

\* the barcode image handed to the marker (none: text fallback) and the
\* width of the marker text at size 1
MarkerRenders ==
    {[img |-> NoImage, font |-> [em |-> e]] : e \in {2, 12, 20}}
    \cup {[img |-> [present |-> TRUE, width |-> wh[1], height |-> wh[2]], font |-> [em |-> 2]] :
            wh \in {<<400, 100>>, <<200, 100>>, <<10000, 2500>>}}

MarkerItems ==
    {[BaseItem EXCEPT !.includeAutoShipBarcodeInArtOnLastSheet = TRUE,
                      !.inArtBarcodeX = ox, !.inArtBarcodeY = oy,
                      !.bleedWidthInches = bl, !.bleedHeightInches = bl,
                      !.artRotation = m, !.imageShiftX = sh[1], !.imageShiftY = sh[2],
                      !.includeOrderNumberWithInInArtBarcode = lbl,
                      !.artPages = 2] :
        ox \in {0, 8, 60, Inch(2), -8}, oy \in {0, 4, -4}, bl \in {0, Inch(2) + 8},
        m \in {"None", "Rows"}, sh \in {<<0, 0>>, <<4, 8>>}, lbl \in BOOLEAN}
    \cup {[BaseItem EXCEPT !.inArtBarcodeX = 8, !.artPages = 2]}

MarkerCalls ==
    {[fn |-> "drawInArtBarcodeAtTargetPage", it |-> it,
      layout |-> planLayout(Inch(13), Inch(19), <<it>>, MaxRequired),
      r |-> rc, c |-> rc, bindingEdge |-> e, anyBackInks |-> b, pageIndex |-> q,
      img |-> rd.img, font |-> rd.font] :
        it \in MarkerItems, rc \in 0..1, e \in {"Left", "Top"}, b \in BOOLEAN,
        q \in 0..1, rd \in MarkerRenders}

\* drawPage of one placement and the in-art barcode step that follows it
CallDrawInArtBarcode ==
    /\ call.fn = "drawInArtBarcodeAtTargetPage"
    /\ ret = Pending
    /\ LET flip == flipPositionsThisPage(call.anyBackInks, call.pageIndex)
           art == placeArtwork(call.it, call.r, call.c, call.layout,
                               call.bindingEdge, flip, call.pageIndex)
       IN  ret' = [done |-> TRUE, flip |-> flip, art |-> art,
                   marker |-> placeInArtMarker(call.it, art, call.pageIndex,
                                               call.img, call.font)]
    /\ UNCHANGED <<call, jobVars>>

MaxDocPages == 7       \* most pages in the document a page range is read for

\* the documented open-ended string ranges
OpenToEndTexts ==
    {<<"3", "-">>, <<"3", ",">>, <<"[", "3", ",", "]">>, <<"3", "-", "e", "n", "d">>}

OpenFromStartTexts ==
    {<<"-", "5">>, <<",", "5">>, <<"[", ",", "5", "]">>}

\* the other documented formats, and texts around them
PageRangeTexts ==
    OpenToEndTexts \cup OpenFromStartTexts \cup
    {<<>>, <<" ", " ">>,
     <<"a", "l", "l">>, <<"A", "L", "L">>,
     <<"1", "-", "3", ",", " ", "5", ",", " ", "7", "-", "9">>,
     <<"[", "1", ",", "3", ",", "5", "]">>,
     <<"[", "[", "1", ",", "3", "]", ",", "[", "5", ",", "5", "]", "]">>,
     <<"[", "[", "3", ",", "n", "u", "l", "l", "]", "]">>,
     <<"[", "[", "n", "u", "l", "l", ",", "5", "]", "]">>,
     <<"[", "[", "3", ",", "\"", "e", "n", "d", "\"", "]", "]">>,
     <<"[", "[", "4", "]", "]">>,
     <<"7">>, <<"0">>, <<"1", "2">>, <<"0", "3">>,
     <<" ", "3", "-", " ">>, <<"3", " ", "-", " ", "E", "N", "D">>, <<"-", " ", "5">>,
     <<"3", "U+2013", "5">>, <<"U+2014", "2">>,
     <<"5", "-", "2">>, <<"2", "-", "4", ",", "-", "1">>,
     <<"[", "2", "-", "3", "]">>, <<"n", "u", "l", "l">>, <<"\"", "e", "n", "d", "\"">>,
     <<"e", "n", "d">>, <<"3", "-", "-", "5">>,
     <<"0", ".", "5">>, <<"2", ".", "5">>, <<"[", "0", ".", "5", ",", "9", "]">>,
     <<"[", "0", ",", "-", "2", ",", "2", "]">>,
     <<"[", "[", "0", ",", "0", "]", "]">>, <<"[", "[", "-", "3", ",", "-", "1", "]", "]">>,
     <<"[", "[", "5", ",", "2", "]", "]">>, <<"[", "[", "2", ",", "0", ".", "5", "]", "]">>,
     <<"[", "[", "6", ",", "9", "]", "]">>, <<"0", "-", "2">>, <<"3", ".">>}

\* the pageMode private data of a job
PageModes == {"", "keep", "remove", "Remove", "delete"}

PageRangeCalls ==
    {[fn |-> "parsePageRanges", raw |-> t, pageCount |-> n, pageMode |-> m] :
        t \in PageRangeTexts, n \in 1..MaxDocPages, m \in PageModes}

\* const selected = await parsePageRanges(pageRangesRaw, pageCount, log);
\* const keptPages1Based = computeKeptPages(pageMode, selected, pageCount)
CallParsePageRanges ==
    /\ call.fn = "parsePageRanges"
    /\ ret = Pending
    /\ LET selected == parsePageRanges(call.raw, call.pageCount)
       IN  ret' = [done |-> TRUE, out |-> selected,
                   kept |-> computeKeptPages(call.pageMode, selected, call.pageCount)]
    /\ UNCHANGED <<call, jobVars>>

InitFn ==
    /\ \/ call \in PlanCalls
       \/ call \in CropCalls
       \/ call \in MarkerCalls
       \/ call \in RotationCalls
       \/ call \in ArtCalls
       \/ call \in BugCalls
       \/ call \in PageRangeCalls
    /\ ret = Pending
    /\ JobIdle

NextFn ==
    \/ CallPlanLayout
    \/ CallComputeArtRotationDegrees
    \/ CallPlaceArtwork
    \/ CallDrawGutterBug
    \/ CallDrawIndividualCrops
    \/ CallDrawInArtBarcode
    \/ CallParsePageRanges

SpecFn == InitFn /\ [][NextFn]_vars

(* ------------------------- jobArrived: helpers ------------------------- *)

\* x || dflt for a number x
OrDefault(x, dflt) == IF x = 0 THEN dflt ELSE x

\* Math.max(orderItems.length, +(payload.requiredPositions || 0) || orderItems.length)
requiredCountOf(pl) ==
    Max({Len(pl.orderItems), OrDefault(pl.requiredPositions, Len(pl.orderItems))})

\* mutant: with no explicit orientation the sheet is turned to portrait
sheetForPortraitFirst(first) ==
    LET w == OrDefault(first.impositionWidth, Inch(19))
        h == OrDefault(first.impositionHeight, Inch(13))
        req == IF first.impositionOrientation = Absent THEN Absent
               ELSE toLowerCase(first.impositionOrientation)
    IN  IF req = "landscape"
        THEN [sheetWIn |-> Max({w, h}), sheetHIn |-> Min({w, h}), actualOrientation |-> "landscape"]
        ELSE [sheetWIn |-> Min({w, h}), sheetHIn |-> Max({w, h}), actualOrientation |-> "portrait"]

\* the sheet jobArrived plans on: the payload's dimensions, swapped only to
\* honour an explicit portrait / landscape request
sheetFor(first) ==
    LET impositionWidth == OrDefault(first.impositionWidth, Inch(19))
        impositionHeight == OrDefault(first.impositionHeight, Inch(13))
        requestedOrientation == IF first.impositionOrientation = Absent THEN Absent
                                ELSE toLowerCase(first.impositionOrientation)
    IN  IF requestedOrientation = "portrait"
        THEN [sheetWIn |-> Min({impositionWidth, impositionHeight}),
              sheetHIn |-> Max({impositionWidth, impositionHeight}),
              actualOrientation |-> "portrait"]
        ELSE IF requestedOrientation = "landscape"
        THEN [sheetWIn |-> Max({impositionWidth, impositionHeight}),
              sheetHIn |-> Min({impositionWidth, impositionHeight}),
              actualOrientation |-> "landscape"]
        ELSE [sheetWIn |-> impositionWidth, sheetHIn |-> impositionHeight,
              actualOrientation |-> IF impositionHeight > impositionWidth
                                    THEN "portrait" ELSE "landscape"]

NullIdx == -1     \* itemIdx: null

\* mutant: empty positions are always filled by cycling
itemIdxForAlwaysCycle(idx, nItems, partialFill) ==
    IF idx < nItems THEN idx ELSE idx % nItems

\* the item (0-based) placed at row-major position idx < requiredCount
itemIdxFor(idx, nItems, partialFill) ==
    IF idx < nItems THEN idx
    ELSE IF partialFill /\ nItems > 0 THEN idx % nItems
    ELSE NullIdx

\* for r, for c: idx = r * cols + c; if (idx < requiredCount) placements.push(...)
RECURSIVE placementsFrom(_, _, _, _, _)
placementsFrom(idx, L, requiredCount, nItems, partialFill) ==
    IF idx >= L.rows * L.cols THEN <<>>
    ELSE (IF idx < requiredCount
          THEN <<[r |-> idx \div L.cols, c |-> idx % L.cols,
                  itemIdx |-> itemIdxFor(idx, nItems, partialFill)]>>
          ELSE <<>>)
         \o placementsFrom(idx + 1, L, requiredCount, nItems, partialFill)

bindingEdgeOf(pl) ==
    IF pl.orderItems[1].bindingEdge = Absent THEN "Left" ELSE pl.orderItems[1].bindingEdge

anyBackInksOf(pl) == \E i \in itemIdxs(pl.orderItems) : pl.orderItems[i].inksBack # 0
includeCoverOf(pl) == \E i \in itemIdxs(pl.orderItems) : pl.orderItems[i].includeCoverSheet
\* mutant: one cover page whatever the back inks
numCoverPagesOfFrontOnly(pl) == IF includeCoverOf(pl) THEN 1 ELSE 0

numCoverPagesOf(pl) == IF includeCoverOf(pl) THEN (IF anyBackInksOf(pl) THEN 2 ELSE 1) ELSE 0
maxPagesOf(pl) == Max({pl.orderItems[i].artPages : i \in itemIdxs(pl.orderItems)})

\* the cut size crop marks are drawn for: the item's, or the cell's for a blank
cropCut(pl, plc, L) ==
    IF plc.itemIdx # NullIdx
    THEN [w |-> pt(pl.orderItems[plc.itemIdx + 1].cutWidthInches),
          h |-> pt(pl.orderItems[plc.itemIdx + 1].cutHeightInches)]
    ELSE [w |-> L.cellWpt, h |-> L.cellHpt]

\* one drawIndividualCrops call of a crop pass
cropDraw(pl, plc, L, flip) ==
    LET eff == getEffectivePosition(plc.r, plc.c, L, bindingEdgeOf(pl), flip)
        cut == cropCut(pl, plc, L)
    IN  [layer |-> "crop", r |-> eff.rEff, c |-> eff.cEff, itemIdx |-> plc.itemIdx,
         cutW |-> cut.w, cutH |-> cut.h,
         isLeftEdge |-> eff.cEff = 0, isRightEdge |-> eff.cEff = L.cols - 1,
         isBottomEdge |-> eff.rEff = 0, isTopEdge |-> eff.rEff = L.rows - 1,
         ticks |-> drawIndividualCrops(cut.w, cut.h, cropGapIn, cropLenIn,
                                       eff.cEff = 0, eff.cEff = L.cols - 1,
                                       eff.rEff = 0, eff.rEff = L.rows - 1,
                                       L.gapHpt, L.gapVpt)]

\* mutant: blank placements are skipped, as the other passes skip them
RECURSIVE cropPassSkippingBlanks(_, _, _, _, _)
cropPassSkippingBlanks(k, pl, plcs, L, flip) ==
    IF k > Len(plcs) THEN <<>>
    ELSE (IF plcs[k].itemIdx = NullIdx THEN <<>> ELSE <<cropDraw(pl, plcs[k], L, flip)>>)
         \o cropPassSkippingBlanks(k + 1, pl, plcs, L, flip)

\* the crop pass: one call per placement, blanks included
RECURSIVE cropPass(_, _, _, _, _)
cropPass(k, pl, plcs, L, flip) ==
    IF k > Len(plcs) THEN <<>>
    ELSE <<cropDraw(pl, plcs[k], L, flip)>> \o cropPass(k + 1, pl, plcs, L, flip)

\* whether the placement has artwork on sheet / cover page pageIndex
hasArtOn(pl, plc, pageIndex) ==
    /\ plc.itemIdx # NullIdx
    /\ pageIndex < pl.orderItems[plc.itemIdx + 1].artPages

\* the gutter-bug pass of a production sheet
RECURSIVE bugPass(_, _, _, _, _, _, _)
bugPass(k, pl, plcs, L, flip, pageIndex, bw) ==
    IF k > Len(plcs) THEN <<>>
    ELSE LET plc == plcs[k]
             rest == bugPass(k + 1, pl, plcs, L, flip, pageIndex, bw)
         IN  IF ~hasArtOn(pl, plc, pageIndex) THEN rest
             ELSE LET it == pl.orderItems[plc.itemIdx + 1]
                      sz == placeSize(it)
                      eff == getEffectivePosition(plc.r, plc.c, L, bindingEdgeOf(pl), flip)
                      strip == drawGutterBug(it, L, eff.rEff, eff.cEff, sz.placeW, sz.placeH,
                                             pt(L.sheetWIn), pt(L.sheetHIn))
                  IN  IF strip.drawn
                      THEN <<[layer |-> "bug", r |-> eff.rEff, c |-> eff.cEff,
                              itemIdx |-> plc.itemIdx, strip |-> strip,
                              content |-> drawBugContent(it, strip, L, eff.rEff,
                                                         eff.cEff, bw)]>> \o rest
                      ELSE rest

\* the artwork pass: drawPage, then the in-art barcode where it is due
RECURSIVE artPass(_, _, _, _, _, _, _, _)
artPass(k, pl, plcs, L, flip, pageIndex, withMarker, bw) ==
    IF k > Len(plcs) THEN <<>>
    ELSE LET plc == plcs[k]
             rest == artPass(k + 1, pl, plcs, L, flip, pageIndex, withMarker, bw)
         IN  IF ~hasArtOn(pl, plc, pageIndex) THEN rest
             ELSE LET it == pl.orderItems[plc.itemIdx + 1]
                      art == placeArtwork(it, plc.r, plc.c, L, bindingEdgeOf(pl), flip, pageIndex)
                      marker == placeInArtMarker(it, art, pageIndex,
                                                 makeBarcodePngBytes(bw), jobFont)
                  IN  <<[layer |-> "art", r |-> art.rEff, c |-> art.cEff,
                         itemIdx |-> plc.itemIdx, art |-> art]>>
                      \o (IF withMarker /\ marker.drawn
                          THEN <<[layer |-> "marker", r |-> art.rEff, c |-> art.cEff,
                                  itemIdx |-> plc.itemIdx, marker |-> marker]>>
                          ELSE <<>>)
                      \o rest

\* the lavender overlays of a cover page: real items only
RECURSIVE overlayPass(_, _, _, _, _, _)
overlayPass(k, pl, plcs, L, flip, bw) ==
    IF k > Len(plcs) THEN <<>>
    ELSE LET plc == plcs[k]
             rest == overlayPass(k + 1, pl, plcs, L, flip, bw)
         IN  IF plc.itemIdx = NullIdx THEN rest
             ELSE LET eff == getEffectivePosition(plc.r, plc.c, L, bindingEdgeOf(pl), flip)
                  IN  <<[layer |-> "overlay", r |-> eff.rEff, c |-> eff.cEff,
                         itemIdx |-> plc.itemIdx,
                         info |-> drawLavenderOverlay(pl.orderItems[plc.itemIdx + 1],
                                                      bw)]>> \o rest

createCoverPage(pl, plcs, L, pageIndex, flip, bw) ==
    [kind |-> "cover", index |-> pageIndex, flip |-> flip,
     draws |-> cropPass(1, pl, plcs, L, flip)
               \o artPass(1, pl, plcs, L, flip, pageIndex, FALSE, bw)
               \o overlayPass(1, pl, plcs, L, flip, bw)]

(* ------------------- jobArrived: what outDoc embeds --------------------- *)

\* outDoc.embedFont(StandardFonts.Helvetica), then HelveticaBold
embedFonts == <<"font:Helvetica", "font:Helvetica-Bold">>



\* perItemEmbeddedPages.has(itId)
perItemEmbeddedPagesHas(cache, itId) ==
    \E k \in 1..Len(cache) : cache[k] = "pdf:" \o ToString(itId)

\* outDoc.embedPdf of the asset's pages, unless the item id has them already
ensureEmbeddedPagesForItem(cache, it) ==
    IF perItemEmbeddedPagesHas(cache, it.id) THEN cache
    ELSE Append(cache, "pdf:" \o ToString(it.id))

\* for (const asset of itemAssets) await ensureEmbeddedPagesForItem(asset)
RECURSIVE embedItemPages(_, _, _)
embedItemPages(k, items, cache) ==
    IF k > Len(items) THEN cache
    ELSE embedItemPages(k + 1, items, ensureEmbeddedPagesForItem(cache, items[k]))

\* the barcodeCache key a draw asks for: `cover-${orderId}-${itemId}` on a
\* cover overlay, `${orderId}-${id}-H` / `-V` on a gutter bug that wants the
\* barcode, `${orderId}-${id}-INART-H` on an in-art marker
barcodeCacheKey(pl, d) ==
    LET it == pl.orderItems[d.itemIdx + 1]
    IN  CASE d.layer = "overlay" -> "cover-" \o markerValue(it)
          [] d.layer = "bug" ->
                IF ~it.includeAutoShipBarcodeInBug THEN "none"
                ELSE markerValue(it) \o (IF d.strip.vertical THEN "-V" ELSE "-H")
          [] d.layer = "marker" -> markerValue(it) \o "-INART-H"
          [] OTHER -> "none"

\* mutant: the cache is never consulted
barcodeCacheGetNothing(cache, key) == FALSE

\* barcodeCache.get(key), as a truth value
barcodeCacheGet(cache, key) == \E k \in 1..Len(cache) : cache[k] = key

\* let img = barcodeCache.get(key); if (!img) { bytes = makeBarcodePngBytes;
\* if (bytes) { img = outDoc.embedPng(bytes); barcodeCache.set(key, img) } }
embedBarcode(cache, key, bw) ==
    IF key = "none" \/ barcodeCacheGet(cache, key) THEN cache
    ELSE IF makeBarcodePngBytes(bw).present THEN Append(cache, key) ELSE cache

\* the embedPng calls of a run of draws, in drawing order.  Before draw k the
\* cache holds what it held before the run and, bytes being there, the keys
\* the draws before k asked for: draw k embeds when embedBarcode adds its key
embedBarcodes(pl, draws, cache, bw) ==
    LET keys == [k \in 1..Len(draws) |-> barcodeCacheKey(pl, draws[k])]
        asked(k) == SelectSeq(SubSeq(keys, 1, k - 1), LAMBDA key : key # "none")
        before(k) == IF makeBarcodePngBytes(bw).present THEN cache \o asked(k) ELSE cache
        embeds(k) == embedBarcode(before(k), keys[k], bw) # before(k)
    IN  cache \o [i \in 1..Cardinality({k \in 1..Len(draws) : embeds(k)}) |->
                    keys[CHOOSE k \in 1..Len(draws) :
                            /\ embeds(k)
                            /\ Cardinality({j \in 1..k : embeds(j)}) = i]]

\* the draws of pages k.., page after page
RECURSIVE drawsOfPages(_, _)
drawsOfPages(k, pgs) ==
    IF k > Len(pgs) THEN <<>> ELSE pgs[k].draws \o drawsOfPages(k + 1, pgs)

(* ------------------------- jobArrived: the run ------------------------- *)

Unparseable == [parsed |-> FALSE]

PlainItem == [BaseItem EXCEPT !.id = 1]

DuplexItem ==
    [BaseItem EXCEPT !.id = 2, !.inksBack = 1, !.includeCoverSheet = TRUE,
                     !.artRotation = "EvenPages", !.artPages = MaxPageCount,
                     !.includeAutoShipBarcodeInArtOnLastSheet = TRUE,
                     !.inArtBarcodePage = 1, !.inArtBarcodeX = 8]

BugItem ==
    [BaseItem EXCEPT !.id = 3, !.includeGutterBug = TRUE, !.bugPosition = "Inside",
                     !.includeAutoShipBarcodeInBug = TRUE,
                     !.artRotation = "Rows", !.bindingEdge = "Top", !.inksBack = 1,
                     !.impositionMarginHorizontal = 8, !.impositionMarginVertical = 8,
                     !.includeAutoShipBarcodeInArtOnLastSheet = TRUE,
                     !.artPages = MaxPageCount]

\* a one-page item whose in-art barcode is configured for a page it has not
MarkedItem ==
    [BaseItem EXCEPT !.id = 4, !.includeAutoShipBarcodeInArtOnLastSheet = TRUE,
                     !.inArtBarcodePage = MaxPageCount + 1,
                     !.includeOrderNumberWithInInArtBarcode = TRUE]

JobItems == {PlainItem, DuplexItem, BugItem, MarkedItem}

\* impositionWidth, impositionHeight, impositionOrientation of the first item
JobSheets ==
    {<<wh[1], wh[2], o>> : wh \in {<<Inch(13), Inch(19)>>, <<Inch(19), Inch(13)>>},
                           o \in {Absent, "Portrait", "Landscape"}}
    \cup {<<Inch(5), Inch(5), Absent>>, <<0, 0, Absent>>}

withSheet(items, sh) ==
    IF items = <<>> THEN items
    ELSE [items EXCEPT ![1] = [@ EXCEPT !.impositionWidth = sh[1], !.impositionHeight = sh[2],
                                        !.impositionOrientation = sh[3]]]

Payload(items, sh, n, pf) ==
    [parsed |-> TRUE, orderItems |-> withSheet(items, sh),
     requiredPositions |-> n, partialFillAvailablePositions |-> pf]

\* one plain item on every sheet and orientation; every mix of items on a
\* 13" x 19" and on a 5" x 5" sheet
JobPayloads ==
    {Payload(<<PlainItem>>, sh, n, FALSE) : sh \in JobSheets, n \in 0..MaxRequired}
    \cup {Payload(items, sh, n, pf) :
            items \in SeqsUpTo(JobItems, MaxItems),
            sh \in {<<Inch(13), Inch(19), Absent>>, <<Inch(5), Inch(5), Absent>>},
            n \in 0..MaxRequired, pf \in BOOLEAN}

Init ==
    /\ payload \in JobPayloads \cup {Unparseable}
    /\ pc = "parse"
    /\ layout = NoLayout
    /\ placements = <<>>
    /\ pages = <<>>
    /\ p = 0
    /\ assets = <<>>
    /\ calls = <<>>
    /\ bwipjs \in {"absent", "failing", "working"}
    /\ embedded = <<>>
    /\ https = NoRequest
    /\ call = [fn |-> "none"]
    /\ ret = Pending

\* job.fail(...) and return
Fail ==
    /\ calls' = Append(calls, "fail")
    /\ pc' = "done"

\* payload private data / input asset parsed; orderItems read
ParsePayload ==
    /\ pc = "parse"
    /\ IF ~payload.parsed \/ Len(payload.orderItems) = 0
       THEN Fail
       ELSE pc' = "plan" /\ UNCHANGED calls
    /\ UNCHANGED <<call, ret, bwipjs, https, embedded, payload, layout, placements, pages, p, assets>>

\* mutant: goes on to fetch the artwork whether or not a layout came back
PlanOnSheetUnchecked ==
    /\ pc = "plan"
    /\ layout' = planLayout(sheetFor(payload.orderItems[1]).sheetWIn,
                            sheetFor(payload.orderItems[1]).sheetHIn,
                            payload.orderItems, requiredCountOf(payload))
    /\ calls' = Append(calls, "planLayout")
    /\ pc' = "fetch"
    /\ assets' = [i \in itemIdxs(payload.orderItems) |-> "pending"]
    /\ UNCHANGED <<call, ret, bwipjs, https, embedded, payload, placements, pages, p>>

\* const layout = planLayout(sheetWIn, sheetHIn, orderItems, requiredCount);
\* if (!layout) return job.fail(...)
PlanOnSheet ==
    /\ pc = "plan"
    /\ LET sheet == sheetFor(payload.orderItems[1])
           L == planLayout(sheet.sheetWIn, sheet.sheetHIn, payload.orderItems,
                           requiredCountOf(payload))
       IN  /\ layout' = L
           /\ IF ~L.ok
              THEN /\ calls' = calls \o <<"planLayout", "fail">>
                   /\ pc' = "done"
                   /\ UNCHANGED assets
              ELSE /\ calls' = Append(calls, "planLayout")
                   /\ pc' = "fetch"
                   /\ assets' = [i \in itemIdxs(payload.orderItems) |-> "pending"]
    /\ UNCHANGED <<call, ret, bwipjs, https, embedded, payload, placements, pages, p>>

\* one item's fetch inside Promise.all, first step: httpGetBytes answers, and
\* PDFDocument.load reads the bytes or throws, or httpGetBytes throws.  The
\* other items' fetches go on after Promise.all has rejected (pc = "done").
HttpGetBytes(i) ==
    /\ pc \in {"fetch", "done"}
    /\ assets[i] = "pending"
    /\ \E how \in {"http", "httpFailed", "badPdf"} : assets' = [assets EXCEPT ![i] = how]
    /\ UNCHANGED <<call, ret, bwipjs, https, embedded, payload, pc, layout, placements, pages, p, calls>>

\* second step, after httpGetBytes threw: fs.readFile of the local artwork
\* answers (and PDFDocument.load reads the bytes or throws), or it throws too
ReadLocalFile(i) ==
    /\ pc \in {"fetch", "done"}
    /\ assets[i] = "httpFailed"
    /\ \E how \in {"local", "failed", "badPdf"} : assets' = [assets EXCEPT ![i] = how]
    /\ UNCHANGED <<call, ret, bwipjs, https, embedded, payload, pc, layout, placements, pages, p, calls>>

FetchArt(i) == HttpGetBytes(i) \/ ReadLocalFile(i)

\* mutant: the job goes on without the artwork that could not be fetched
FetchFailedIgnored ==
    /\ pc = "fetch"
    /\ \E i \in DOMAIN assets : assets[i] \in {"failed", "badPdf"}
    /\ \A i \in DOMAIN assets : assets[i] \notin {"pending", "httpFailed"}
    /\ placements' = placementsFrom(0, layout, requiredCountOf(payload),
                                    Len(payload.orderItems),
                                    payload.partialFillAvailablePositions)
    /\ embedded' = embedItemPages(1, payload.orderItems, embedded \o embedFonts)
    /\ pc' = "cover"
    /\ UNCHANGED <<call, ret, bwipjs, https, payload, layout, pages, p, assets, calls>>

\* Promise.all rejected, as soon as one item's fetch has thrown: the catch
\* block fails the job
FetchFailed ==
    /\ pc = "fetch"
    /\ \E i \in DOMAIN assets : assets[i] \in {"failed", "badPdf"}
    /\ Fail
    /\ UNCHANGED <<call, ret, bwipjs, https, embedded, payload, layout, placements, pages, p, assets>>

\* Promise.all resolved: pages embedded, placements filled up to requiredCount
BuildPlacements ==
    /\ pc = "fetch"
    /\ \A i \in DOMAIN assets : assets[i] \in {"http", "local"}
    /\ placements' = placementsFrom(0, layout, requiredCountOf(payload),
                                    Len(payload.orderItems),
                                    payload.partialFillAvailablePositions)
    /\ embedded' = embedItemPages(1, payload.orderItems, embedded \o embedFonts)
    /\ pc' = "cover"
    /\ UNCHANGED <<call, ret, bwipjs, https, payload, layout, pages, p, assets, calls>>

\* the cover pages: none, the front, or front and (flipped) back
CoverPages ==
    /\ pc = "cover"
    /\ LET n == numCoverPagesOf(payload)
       IN  pages' = pages
                \o (IF n >= 1 THEN <<createCoverPage(payload, placements, layout, 0, FALSE, bwipjs)>>
                    ELSE <<>>)
                \o (IF n = 2 THEN <<createCoverPage(payload, placements, layout, 1, TRUE, bwipjs)>>
                    ELSE <<>>)
    /\ embedded' = embedBarcodes(payload, drawsOfPages(Len(pages) + 1, pages'),
                                 embedded, bwipjs)
    /\ p' = 0
    /\ pc' = "bugs"
    /\ UNCHANGED <<call, ret, bwipjs, https, payload, layout, placements, assets, calls>>

thisFlip == flipPositionsThisPage(anyBackInksOf(payload), p)

\* mutant: what is drawn later goes under what is already on the page
addDrawsUnderneath(draws) == [pages EXCEPT ![Len(pages)].draws = draws \o @]

\* page.drawLine / drawImage / drawText / drawPage: each draw goes on top of
\* what the page already holds
addDraws(draws) == [pages EXCEPT ![Len(pages)].draws = @ \o draws]

\* outDoc.addPage, then the gutter-bug pass of production sheet p
DrawBugLayer ==
    /\ pc = "bugs"
    /\ pages' = Append(pages, [kind |-> "production", index |-> p, flip |-> thisFlip,
                               draws |-> bugPass(1, payload, placements, layout, thisFlip, p, bwipjs)])
    /\ embedded' = embedBarcodes(payload, pages'[Len(pages')].draws, embedded, bwipjs)
    /\ pc' = "crops"
    /\ UNCHANGED <<call, ret, bwipjs, https, payload, layout, placements, p, assets, calls>>

\* the crop pass of production sheet p
DrawCropLayer ==
    /\ pc = "crops"
    /\ pages' = addDraws(cropPass(1, payload, placements, layout, thisFlip))
    /\ pc' = "art"
    /\ UNCHANGED <<call, ret, bwipjs, https, embedded, payload, layout, placements, p, assets, calls>>

\* the artwork pass of production sheet p, then on to the next sheet
DrawArtLayer ==
    /\ pc = "art"
    /\ pages' = addDraws(artPass(1, payload, placements, layout, thisFlip, p, TRUE, bwipjs))
    /\ embedded' = embedBarcodes(payload,
                                 artPass(1, payload, placements, layout, thisFlip, p, TRUE, bwipjs),
                                 embedded, bwipjs)
    /\ p' = p + 1
    /\ pc' = IF p + 1 < maxPagesOf(payload) THEN "bugs" ELSE "save"
    /\ UNCHANGED <<call, ret, bwipjs, https, payload, layout, placements, assets, calls>>

\* what saving and sending can add to the calls: job.get or outDoc.save
\* throws; fs.writeFile throws; the file is written and job.sendToSingle
\* returns or throws; or, on a job without sendToSingle, job.sendTo is called
\* without await, and returns, throws at once, or rejects later, outside the
\* try block.  A throw inside the try block lands in the catch block: job.fail.
SaveOutcomes ==
    {<<"fail">>,
     <<"writeFile:threw", "fail">>,
     <<"writeFile", "sendToSingle">>,
     <<"writeFile", "sendToSingle:threw", "fail">>,
     <<"writeFile", "sendTo">>,
     <<"writeFile", "sendTo:threw", "fail">>,
     <<"writeFile", "sendTo:rejected">>}

\* Save & send
SaveAndSend ==
    /\ pc = "save"
    /\ \E outcome \in SaveOutcomes : calls' = calls \o outcome
    /\ pc' = "done"
    /\ UNCHANGED <<call, ret, bwipjs, https, embedded, payload, layout, placements, pages, p, assets>>

Next ==
    \/ ParsePayload
    \/ PlanOnSheet
    \/ \E i \in DOMAIN assets : FetchArt(i)
    \/ FetchFailed
    \/ BuildPlacements
    \/ CoverPages
    \/ DrawBugLayer
    \/ DrawCropLayer
    \/ DrawArtLayer
    \/ SaveAndSend

Spec == Init /\ [][Next]_vars

(* ----------------------- claims on jobArrived --------------------------- *)

Planned == \E k \in 1..Len(calls) : calls[k] = "planLayout"

FirstItem == payload.orderItems[1]
SuppliedW == IF FirstItem.impositionWidth = 0 THEN Inch(19) ELSE FirstItem.impositionWidth
SuppliedH == IF FirstItem.impositionHeight = 0 THEN Inch(13) ELSE FirstItem.impositionHeight
NItems == Len(payload.orderItems)
Required == IF payload.requiredPositions > NItems THEN payload.requiredPositions ELSE NItems

AsSupplied == planLayout(SuppliedW, SuppliedH, payload.orderItems, Required)
Turned == planLayout(SuppliedH, SuppliedW, payload.orderItems, Required)

\* fewer waste cells wins, ties go to more columns
FewerWaste(a, b) ==
    IF ~b.ok THEN a
    ELSE IF ~a.ok THEN b
    ELSE IF a.waste < b.waste THEN a
    ELSE IF b.waste < a.waste THEN b
    ELSE IF a.cols >= b.cols THEN a ELSE b

\* 13 and 19 inch sheet, 2" x 2" cut items, no margin, 10 positions
Scenario13x19 ==
    /\ {SuppliedW, SuppliedH} = {Inch(13), Inch(19)}
    /\ \A i \in itemIdxs(payload.orderItems) :
          /\ payload.orderItems[i].cutWidthInches = Inch(2)
          /\ payload.orderItems[i].cutHeightInches = Inch(2)
          /\ payload.orderItems[i].impositionMarginHorizontal = 0
          /\ payload.orderItems[i].impositionMarginVertical = 0
    /\ Required = 10

NoOrientationGiven == Planned /\ FirstItem.impositionOrientation = Absent

\* C3 (as claimed): with no explicit orientation both (W,H) and (H,W) are
\* planned and the layout with fewer waste cells (ties: more columns) is
\* imposed; in the 13 x 19 scenario that is the portrait layout with waste 2.
C3_FewestWasteOrientation ==
    NoOrientationGiven =>
        /\ layout = FewerWaste(AsSupplied, Turned)
        /\ Scenario13x19 => layout.ok /\ layout.orientation = "portrait" /\ layout.waste = 2

\* C3 (amended): with no explicit orientation only the supplied (W,H) is
\* planned, once, and imposed on; in the 13 x 19 scenario that is portrait
\* 6 x 2 with waste 2 when 13 is the width and landscape 9 x 2 with waste 8
\* when 19 is the width.
C3_SuppliedOrientation ==
    NoOrientationGiven =>
        /\ layout = AsSupplied
        /\ Cardinality({k \in 1..Len(calls) : calls[k] = "planLayout"}) = 1
        /\ Scenario13x19 /\ SuppliedW = Inch(13) =>
              /\ layout.orientation = "portrait"
              /\ layout.cols = 6 /\ layout.rows = 2 /\ layout.waste = 2
        /\ Scenario13x19 /\ SuppliedW = Inch(19) =>
              /\ layout.orientation = "landscape"
              /\ layout.cols = 9 /\ layout.rows = 2 /\ layout.waste = 8

\* the scenario with 19 supplied as the width, imposed and sent
C3_Witness ==
    /\ NoOrientationGiven
    /\ Scenario13x19
    /\ SuppliedW = Inch(19)
    /\ layout.waste = 8
    /\ pc = "done"
    /\ calls[Len(calls)] = "sendToSingle"

\* C4: when planLayout returns no layout the job ends with one fail and
\* nothing else: no fetch, no page, no placement, no write or forward, no
\* second planLayout call.
C4_InfeasibleIsTerminal ==
    Planned /\ ~layout.ok =>
        /\ pc = "done"
        /\ calls = <<"planLayout", "fail">>
        /\ assets = <<>>
        /\ pages = <<>>
        /\ placements = <<>>

\* ten positions asked for on a 5" x 5" sheet
C4_Witness ==
    /\ Planned
    /\ ~layout.ok
    /\ payload.requiredPositions = 10
    /\ pc = "done"

Placed == pc \in {"cover", "bugs", "crops", "art", "save"} \/ (pc = "done" /\ pages # <<>>)

\* C5: placements are row-major; index < item count is that item, index in
\* [item count, required) is blank, or item (index mod item count) under
\* partialFillAvailablePositions; exactly `required` placements, all at
\* distinct cells, none for an index >= required.
C5_RowMajorPlacements ==
    Placed =>
        /\ Len(placements) = Required
        /\ \A k \in 1..Len(placements) :
              LET plc == placements[k]
                  idx == plc.r * layout.cols + plc.c
              IN  /\ idx = k - 1
                  /\ plc.r \in 0..(layout.rows - 1)
                  /\ plc.c \in 0..(layout.cols - 1)
                  /\ idx < NItems => plc.itemIdx = idx
                  /\ idx >= NItems /\ ~payload.partialFillAvailablePositions =>
                        plc.itemIdx = NullIdx
                  /\ idx >= NItems /\ payload.partialFillAvailablePositions =>
                        plc.itemIdx = idx % NItems

\* two items cycled over a second row
C5_Witness ==
    /\ Placed
    /\ payload.partialFillAvailablePositions
    /\ NItems = 2
    /\ Len(placements) = 9
    /\ placements[9].r = 1
    /\ placements[9].itemIdx = 0

\* the pages whose crop pass has run
CropDone(k) == k < Len(pages) \/ pc # "crops"

CropCells(page) ==
    {<<page.draws[j].r, page.draws[j].c>> :
        j \in {i \in 1..Len(page.draws) : page.draws[i].layer = "crop"}}

GridCells == (0..(layout.rows - 1)) \X (0..(layout.cols - 1))

\* C6 (as claimed): on every production and cover sheet crop marks are drawn
\* for every one of the cols*rows grid cells, blank and unpopulated included.
C6_CropsOnEveryCell ==
    \A k \in 1..Len(pages) : CropDone(k) => CropCells(pages[k]) = GridCells

PlacedCells(flip) ==
    {<<getEffectivePosition(placements[k].r, placements[k].c, layout,
                            bindingEdgeOf(payload), flip).rEff,
       getEffectivePosition(placements[k].r, placements[k].c, layout,
                            bindingEdgeOf(payload), flip).cEff>> : k \in 1..Len(placements)}

\* C6 (amended): on every production and cover sheet crop marks are drawn
\* for exactly the `required` cells that hold a placement (row-major index
\* < required, mirrored on a back sheet), blank placements included; the
\* unpopulated cells with index >= required get none.
C6_CropsOnEveryPlacement ==
    \A k \in 1..Len(pages) : CropDone(k) =>
        /\ CropCells(pages[k]) = PlacedCells(pages[k].flip)
        /\ Cardinality(CropCells(pages[k])) = Required
        /\ Cardinality({i \in 1..Len(pages[k].draws) : pages[k].draws[i].layer = "crop"})
              = Required

\* a finished back sheet with a blank placement and an unpopulated cell
C6_Witness ==
    /\ pc = "done"
    /\ pages # <<>>
    /\ pages[Len(pages)].kind = "production"
    /\ pages[Len(pages)].flip
    /\ layout.waste > 0
    /\ \E k \in 1..Len(placements) : placements[k].itemIdx = NullIdx
    /\ CropCells(pages[Len(pages)]) # GridCells

(* ------------------- claims on the pure functions ----------------------- *)

PlanReturned == call.fn = "planLayout" /\ ret # Pending /\ ret.layout.ok

PlanRequired == Max({1, call.requiredCountOverride})

\* C1: every layout planLayout returns has cols*rows >= required and
\* waste = cols*rows - required >= 0, with required = max(1, requested count).
C1_GridCoversRequired ==
    PlanReturned =>
        /\ ret.layout.cols * ret.layout.rows >= PlanRequired
        /\ ret.layout.waste = ret.layout.cols * ret.layout.rows - PlanRequired
        /\ ret.layout.waste >= 0

\* a returned layout that needed a second row and leaves cells empty
C1_Witness ==
    /\ PlanReturned
    /\ ret.layout.rows > 1
    /\ ret.layout.waste > 0

\* C2: every layout planLayout returns lies inside the sheet minus the fixed
\* 0.125" outer margin on all four sides.
C2_GridInsideMargins ==
    PlanReturned =>
        LET L == ret.layout
        IN  /\ L.offX >= pt(outerMarginIn)
            /\ L.offY >= pt(outerMarginIn)
            /\ L.offX + L.cols * L.cellWpt + (L.cols - 1) * L.gapHpt
                   <= pt(L.sheetWIn) - pt(outerMarginIn)
            /\ L.offY + L.rows * L.cellHpt + (L.rows - 1) * L.gapVpt
                   <= pt(L.sheetHIn) - pt(outerMarginIn)

Returned(fn) == call.fn = fn /\ ret # Pending

Rot(b) == IF b THEN 180 ELSE 0

\* C7: base rotation is 0 for None; for Rows 180 on alternating rows, row 0
\* rotated iff rotateFirstColumnOrRow; for Columns the same on column parity;
\* for EvenPages 180 exactly when the 0-based page index is odd.
C7_BaseRotation ==
    Returned("computeArtRotationDegrees") =>
        LET start == call.it.rotateFirstColumnOrRow
        IN  /\ call.it.artRotation = "None" => ret.deg = 0
            /\ call.it.artRotation = "Rows" => ret.deg = Rot((call.r % 2 = 0) <=> start)
            /\ call.it.artRotation = "Columns" => ret.deg = Rot((call.c % 2 = 0) <=> start)
            /\ call.it.artRotation = "EvenPages" => ret.deg = Rot(call.pageIndex % 2 = 1)

\* Rows with the flag off, second row: rotated
C7_Witness ==
    /\ Returned("computeArtRotationDegrees")
    /\ call.it.artRotation = "Rows"
    /\ ~call.it.rotateFirstColumnOrRow
    /\ call.r = 1
    /\ ret.deg = 180

BackSheet == call.anyBackInks /\ call.pageIndex % 2 = 1

\* C8: on a back sheet Left/Right binding mirrors the column and negates only
\* the X shift, Top/Bottom mirrors the row and negates only the Y shift, and
\* the rotation is (base + 180) mod 360 with base taken at the mirrored cell;
\* on a front sheet position, rotation and shift are unchanged.
C8_BackSheetTransform ==
    Returned("placeArtwork") =>
        LET a == ret.art
            L == call.layout
            it == call.it
            base == computeArtRotationDegrees(it, a.rEff, a.cEff, call.pageIndex)
        IN  /\ BackSheet /\ call.bindingEdge \in {"Left", "Right"} =>
                /\ a.cEff = L.cols - 1 - call.c
                /\ a.rEff = call.r
                /\ a.shiftX = -it.imageShiftX
                /\ a.shiftY = it.imageShiftY
            /\ BackSheet /\ call.bindingEdge \in {"Top", "Bottom"} =>
                /\ a.rEff = L.rows - 1 - call.r
                /\ a.cEff = call.c
                /\ a.shiftX = it.imageShiftX
                /\ a.shiftY = -it.imageShiftY
            /\ BackSheet => a.rotDeg = (base + 180) % 360
            /\ ~BackSheet =>
                /\ a.rEff = call.r
                /\ a.cEff = call.c
                /\ a.shiftX = it.imageShiftX
                /\ a.shiftY = it.imageShiftY
                /\ a.rotDeg = computeArtRotationDegrees(it, call.r, call.c, call.pageIndex)

\* Left binding, back sheet, cols = 4, col 0: effective col 3, X shift negated
C8_Witness ==
    /\ Returned("placeArtwork")
    /\ BackSheet
    /\ call.bindingEdge = "Left"
    /\ call.layout.cols = 4
    /\ call.c = 0
    /\ ret.art.cEff = 3
    /\ call.it.imageShiftX = 4
    /\ ret.art.shiftX = -4
    /\ ret.art.shiftY = 8

\* C9: mirroring is an involution on the grid: the mirrored position is a
\* cell of the grid and mirroring it again gives back (r, c).
C9_MirrorInvolution ==
    Returned("placeArtwork") =>
        LET L == call.layout
            again == getEffectivePosition(ret.art.rEff, ret.art.cEff, L,
                                          call.bindingEdge, ret.flip)
        IN  /\ ret.art.rEff \in 0..(L.rows - 1)
            /\ ret.art.cEff \in 0..(L.cols - 1)
            /\ again.rEff = call.r
            /\ again.cEff = call.c

\* a back-sheet cell that the mirror moves
C9_Witness ==
    /\ Returned("placeArtwork")
    /\ ret.flip
    /\ call.bindingEdge = "Top"
    /\ ret.art.rEff # call.r

BugBox ==
    LET sz == placeSize(call.it)
        cx == cellCenterX(call.layout, call.c)
        cy == cellCenterY(call.layout, call.r)
    IN  [xL |-> cx - sz.placeW \div 2, xR |-> cx + sz.placeW \div 2,
         yB |-> cy - sz.placeH \div 2, yT |-> cy + sz.placeH \div 2]

BugGap(side) ==
    availableGapForSide(side, call.layout, call.r, call.c, BugBox,
                        pt(call.layout.sheetWIn), pt(call.layout.sheetHIn))

Sides == {"left", "right", "bottom", "top"}

\* C10: the side chosen for a strip always has gap >= strip thickness; an
\* explicit side request yields that side when its gap suffices and nothing
\* otherwise; when no side has gap >= thickness nothing is drawn.
C10_BugSideHasRoom ==
    Returned("drawGutterBug") /\ call.it.includeGutterBug =>
        LET strip == ret.strip
            want == toLowerCase(call.it.bugPosition)
        IN  /\ strip.drawn => strip.side \in Sides /\ BugGap(strip.side) >= pt(BUG_THICKNESS_IN)
            /\ want \in Sides =>
                  IF BugGap(want) >= pt(BUG_THICKNESS_IN)
                  THEN strip.drawn /\ strip.side = want
                  ELSE ~strip.drawn
            /\ (\A s \in Sides : BugGap(s) < pt(BUG_THICKNESS_IN)) => ~strip.drawn

\* an Inside request answered with a side although another side is too narrow
C10_Witness ==
    /\ Returned("drawGutterBug")
    /\ call.it.bugPosition = "Inside"
    /\ ret.strip.drawn
    /\ \E s \in Sides : BugGap(s) < pt(BUG_THICKNESS_IN)

(* ------------------------- claims on crop marks -------------------------- *)

\* the interior ticks of a returned drawIndividualCrops call, each with the
\* inter-cell gap of its axis
InteriorTicks ==
    (IF call.isLeftEdge THEN {} ELSE {[len |-> ret.ticks.leftLen, gap |-> call.gapHorizontal]})
    \cup (IF call.isRightEdge THEN {}
          ELSE {[len |-> ret.ticks.rightLen, gap |-> call.gapHorizontal]})
    \cup (IF call.isTopEdge THEN {} ELSE {[len |-> ret.ticks.topLen, gap |-> call.gapVertical]})
    \cup (IF call.isBottomEdge THEN {}
          ELSE {[len |-> ret.ticks.bottomLen, gap |-> call.gapVertical]})

\* min(1/32", 0.4 x (gap - 2 x 1/16"))
InteriorBound(gap) == Min({pt(1), TwoFifths(gap - 2 * pt(2))})

\* C11 as stated: every interior crop tick has length
\* <= min(1/32", 0.4 x (gap - 2 x 1/16")), for every inter-cell gap >= 0.
C11_InteriorTickBound ==
    Returned("drawIndividualCrops") =>
        \A t \in InteriorTicks : t.len <= InteriorBound(t.gap)

\* C11 amended: every interior crop tick has a length >= 0 that is
\* <= max(0, min(1/32", 0.4 x (gap - 2 x 1/16"))); where the gap is under 1/8"
\* and the stated bound is negative, the tick has length 0.
C11_InteriorTickClamped ==
    Returned("drawIndividualCrops") =>
        \A t \in InteriorTicks :
            /\ t.len >= 0
            /\ t.len <= Max({0, InteriorBound(t.gap)})
            /\ t.gap < pt(4) => t.len = 0

\* an interior tick of a length strictly between 0 and 1/32" was drawn, and
\* another one in a gap under 1/8"
C11_Witness ==
    /\ Returned("drawIndividualCrops")
    /\ \E t \in InteriorTicks : t.len > 0 /\ t.len < pt(1)
    /\ \E t \in InteriorTicks : t.gap < pt(4)

(* ------------------ claims on the sheets of a job ---------------------- *)

\* every production sheet of the run has been drawn
SheetsDrawn == pc \in {"save", "done"} /\ Len(placements) > 0

ItemOf(plc) == payload.orderItems[plc.itemIdx + 1]

\* the draws of a layer on a page that belong to a placement: those at the
\* cell the placement takes on that side of the sheet
DrawsFor(page, plc, lyr) ==
    LET eff == getEffectivePosition(plc.r, plc.c, layout, bindingEdgeOf(payload), page.flip)
    IN  {j \in DOMAIN page.draws :
            /\ page.draws[j].layer = lyr
            /\ page.draws[j].r = eff.rEff
            /\ page.draws[j].c = eff.cEff}

\* the artwork page index the marker of an item is due on
MarkerTarget(it) ==
    IF it.inArtBarcodePage >= 1 THEN Min({it.inArtBarcodePage, it.artPages}) - 1
    ELSE it.artPages - 1

MarkedPlacements ==
    {k \in DOMAIN placements :
        /\ placements[k].itemIdx # NullIdx
        /\ ItemOf(placements[k]).includeAutoShipBarcodeInArtOnLastSheet}

\* C14: for each placement of an item with the in-art marker enabled, over
\* the whole run the marker is drawn once on the production sheet of the
\* configured page (clamped to the item's last page; the last page when none
\* is configured) and on no other production sheet and no cover sheet.
C14_MarkerOnTargetSheetOnly ==
    SheetsDrawn =>
        \A k \in MarkedPlacements : \A i \in DOMAIN pages :
            Cardinality(DrawsFor(pages[i], placements[k], "marker"))
              = IF /\ pages[i].kind = "production"
                   /\ pages[i].index = MarkerTarget(ItemOf(placements[k]))
                THEN 1 ELSE 0

\* a run with cover sheets and several production sheets, holding a marker
\* configured for the first page of a longer item, one left at the default
\* and one configured beyond the item's last page
C14_Witness ==
    /\ SheetsDrawn
    /\ \E i \in DOMAIN pages : pages[i].kind = "cover"
    /\ \E i \in DOMAIN pages : pages[i].kind = "production" /\ pages[i].index > 0
    /\ \E k \in MarkedPlacements :
          LET it == ItemOf(placements[k])
          IN  it.inArtBarcodePage >= 1 /\ it.inArtBarcodePage < it.artPages
    /\ \E k \in MarkedPlacements :
          \/ ItemOf(placements[k]).inArtBarcodePage = 0
          \/ ItemOf(placements[k]).inArtBarcodePage > ItemOf(placements[k]).artPages

ProductionPages == {i \in DOMAIN pages : pages[i].kind = "production"}

\* every draw of layer a on the page comes before every draw of layer b
Precedes(page, a, b) ==
    \A i, j \in DOMAIN page.draws :
        (page.draws[i].layer = a /\ page.draws[j].layer = b) => i < j

\* C15 as stated: on every production sheet every crop-mark draw precedes
\* every gutter-bug draw, every gutter-bug draw precedes every artwork draw,
\* and every artwork draw precedes every overlay (in-art marker) draw.
C15_CropsBugsArtOverlay ==
    \A i \in ProductionPages :
        /\ Precedes(pages[i], "crop", "bug")
        /\ Precedes(pages[i], "bug", "art")
        /\ Precedes(pages[i], "art", "marker")

\* C15 amended: on every production sheet every gutter-bug draw precedes
\* every crop-mark draw, every crop-mark draw precedes every artwork and
\* every in-art marker draw, and each in-art marker is drawn directly after
\* the artwork of its own placement.
C15_BugsCropsArtWithMarkers ==
    \A i \in ProductionPages :
        /\ Precedes(pages[i], "bug", "crop")
        /\ Precedes(pages[i], "crop", "art")
        /\ Precedes(pages[i], "crop", "marker")
        /\ \A j \in DOMAIN pages[i].draws :
              pages[i].draws[j].layer = "marker" =>
                  /\ j > 1
                  /\ pages[i].draws[j - 1].layer = "art"
                  /\ pages[i].draws[j - 1].r = pages[i].draws[j].r
                  /\ pages[i].draws[j - 1].c = pages[i].draws[j].c

\* a finished production sheet with gutter bugs, crop marks, artwork and an
\* in-art marker that is followed by the artwork of a later placement
C15_Witness ==
    \E i \in ProductionPages :
        LET d == pages[i].draws
        IN  /\ pc \in {"save", "done"}
            /\ \E j \in DOMAIN d : d[j].layer = "bug"
            /\ \E j \in DOMAIN d : d[j].layer = "crop"
            /\ \E j, k \in DOMAIN d : j < k /\ d[j].layer = "marker" /\ d[k].layer = "art"

CallsOf(name) == {j \in DOMAIN calls : calls[j] = name}

\* the forwards of the output that went through
Forwards == CallsOf("sendToSingle") \cup CallsOf("sendTo")

\* the job was failed out of the artwork fetch: the layout was planned and
\* nothing has been placed
FailedAtFetch ==
    /\ pc = "done"
    /\ layout.ok
    /\ placements = <<>>
    /\ calls[Len(calls)] = "fail"

\* C16: once both the network fetch and the local fallback of one item have
\* failed, whatever the other fetches do and in whatever order, the job is
\* still waiting for artwork or has ended in fail: nothing is placed, no page
\* is made, no output is written or forwarded; and a job that was failed out
\* of the fetch has an item whose fetches both failed or whose bytes could not
\* be read, so a network failure made good by the local file fails no job.
C16_FetchFailureFailsJob ==
    /\ (\E i \in DOMAIN assets : assets[i] = "failed") =>
          /\ pc \in {"fetch", "done"}
          /\ pc = "done" => FailedAtFetch
          /\ placements = <<>> /\ pages = <<>>
          /\ CallsOf("writeFile") = {} /\ Forwards = {}
          /\ Cardinality(CallsOf("fail")) <= 1
    /\ FailedAtFetch => \E i \in DOMAIN assets : assets[i] \in {"failed", "badPdf"}

\* the job was failed on one item's double failure while another item's
\* fetch, still pending then, has since succeeded
C16_Witness ==
    /\ FailedAtFetch
    /\ \E i, j \in DOMAIN assets : assets[i] = "failed" /\ assets[j] \in {"http", "local"}

\* a job whose item came from the local file after the network fetch failed
\* was written and forwarded
C16_LocalFallbackWitness ==
    /\ pc = "done"
    /\ Forwards # {}
    /\ \E i \in DOMAIN assets : assets[i] = "local"

\* every draw on every page so far
AllDraws == UNION {{pages[i].draws[j] : j \in DOMAIN pages[i].draws} : i \in DOMAIN pages}

\* the draw puts the marker value of its item on the sheet as text
DrawsValueAsText(d) ==
    CASE d.layer = "marker" ->
            d.marker.kind = "text" /\ d.marker.value = markerValue(payload.orderItems[d.itemIdx + 1])
      [] d.layer = "overlay" ->
            d.info.barcode = "text" /\ d.info.value = markerValue(payload.orderItems[d.itemIdx + 1])
      [] OTHER -> FALSE

\* a gutter bug whose item asks for a barcode in the bug
BarcodeBugs ==
    {d \in AllDraws :
        d.layer = "bug" /\ payload.orderItems[d.itemIdx + 1].includeAutoShipBarcodeInBug}

\* C17 as stated: without a barcode capability (or with barcode generation
\* returning nothing) the marker value is drawn as text at every place a
\* marker is drawn: in-art marker, cover overlay and gutter bug.
C17_TextFallbackEverywhere ==
    bwipjs # "working" =>
        /\ \A d \in AllDraws : d.layer \in {"marker", "overlay"} => DrawsValueAsText(d)
        /\ \A d \in BarcodeBugs : d.content.text = markerValue(payload.orderItems[d.itemIdx + 1])

\* C17 amended: without a barcode capability the job does not fail for that
\* reason; the in-art marker and the cover overlay draw the marker value as
\* text in place of the image, and a gutter bug draws no barcode and no marker
\* value, only the artwork path it carries in any case; a job that fails
\* once its sheets are being drawn fails in saving, all sheets drawn.
C17_TextFallbackInArtAndCover ==
    bwipjs # "working" =>
        /\ \A d \in AllDraws : d.layer \in {"marker", "overlay"} => DrawsValueAsText(d)
        /\ \A d \in BarcodeBugs :
              /\ d.content.barcode = "none"
              /\ d.content.text = payload.orderItems[d.itemIdx + 1].localArtworkPath
        /\ (pc = "done" /\ placements # <<>> /\ calls[Len(calls)] = "fail") =>
              Cardinality(ProductionPages) = maxPagesOf(payload)

\* a job without bwip-js was written and forwarded with a cover overlay, an
\* in-art marker and a gutter bug of an item that asks for a barcode in it
C17_Witness ==
    /\ bwipjs = "absent"
    /\ pc = "done"
    /\ Forwards # {}
    /\ BarcodeBugs # {}
    /\ \E d \in AllDraws : d.layer = "marker"
    /\ \E d \in AllDraws : d.layer = "overlay"

Succeeded == pc = "done" /\ Forwards # {}

\* the number of cover pages the claim gives
NumCover ==
    IF \A i \in DOMAIN payload.orderItems : ~payload.orderItems[i].includeCoverSheet THEN 0
    ELSE IF \A i \in DOMAIN payload.orderItems : payload.orderItems[i].inksBack = 0 THEN 1
    ELSE 2

\* the largest page count over the items
MaxPages ==
    CHOOSE n \in 1..MaxPageCount :
        /\ \E i \in DOMAIN payload.orderItems : payload.orderItems[i].artPages = n
        /\ \A i \in DOMAIN payload.orderItems : payload.orderItems[i].artPages <= n

LayersOf(page) == {page.draws[j].layer : j \in DOMAIN page.draws}

\* C18: a successful job outputs NumCover cover pages, then one production
\* sheet per artwork page index 0..MaxPages-1 in order; a cover page holds
\* crop marks for every placement, an info overlay for every placed item, the
\* artwork of every placed item that has that page, and no gutter bug and no
\* in-art marker.
C18_CoversThenProductionSheets ==
    Succeeded =>
        /\ Len(pages) = NumCover + MaxPages
        /\ \A i \in 1..NumCover :
              /\ pages[i].kind = "cover"
              /\ pages[i].index = i - 1
              /\ LayersOf(pages[i]) \subseteq {"crop", "art", "overlay"}
              /\ \A k \in DOMAIN placements :
                    /\ Cardinality(DrawsFor(pages[i], placements[k], "crop")) = 1
                    /\ Cardinality(DrawsFor(pages[i], placements[k], "overlay"))
                         = IF placements[k].itemIdx # NullIdx THEN 1 ELSE 0
                    /\ Cardinality(DrawsFor(pages[i], placements[k], "art"))
                         = IF /\ placements[k].itemIdx # NullIdx
                              /\ i - 1 < ItemOf(placements[k]).artPages
                           THEN 1 ELSE 0
        /\ \A q \in 0..(MaxPages - 1) :
              /\ pages[NumCover + 1 + q].kind = "production"
              /\ pages[NumCover + 1 + q].index = q

\* a successful job with two cover pages and two production sheets that
\* carry a gutter bug and an in-art marker
C18_Witness ==
    /\ Succeeded
    /\ NumCover = 2
    /\ MaxPages >= 2
    /\ \E d \in AllDraws : d.layer = "bug"
    /\ \E d \in AllDraws : d.layer = "marker"
    /\ \E k \in DOMAIN placements : placements[k].itemIdx = NullIdx

\* the terminal signals given so far: fail calls, and forwards of the
\* written output that went through
TerminalSignals == CallsOf("fail") \cup Forwards

\* C19 as stated: every run ends with exactly one terminal signal, a single
\* fail call or a single forward of the written output, never both, never
\* two fail calls and never neither, whatever the payload, layout, fetch,
\* write and forward outcomes; and none is given before the run ends.
C19_ExactlyOneTerminalSignal ==
    Cardinality(TerminalSignals) = IF pc = "done" THEN 1 ELSE 0

(* ----------------------- claims on the in-art marker --------------------- *)

MarkerDrawn == Returned("drawInArtBarcodeAtTargetPage") /\ ret.marker.drawn

\* the centre of the artwork as drawPage puts it on the sheet: the page is
\* turned about its draw origin (x, y)
ArtCentre ==
    IF ret.art.rotDeg = 180
    THEN [x |-> ret.art.x - ret.art.width \div 2, y |-> ret.art.y - ret.art.height \div 2]
    ELSE [x |-> ret.art.x + ret.art.width \div 2, y |-> ret.art.y + ret.art.height \div 2]

\* the lower-left corner of the cut box, centred in the placed artwork
CutLowerLeft ==
    [x |-> ArtCentre.x - pt(call.it.cutWidthInches) \div 2,
     y |-> ArtCentre.y - pt(call.it.cutHeightInches) \div 2]

\* C12 as stated: at 0 degrees the marker's draw origin is the cut box's
\* lower-left corner plus the user offset, for every user offset.
C12_OriginIsCutLLPlusOffset ==
    (MarkerDrawn /\ ret.art.rotDeg = 0) =>
        /\ ret.marker.x = CutLowerLeft.x + pt(call.it.inArtBarcodeX)
        /\ ret.marker.y = CutLowerLeft.y + pt(call.it.inArtBarcodeY)

\* C12 amended: at 0 degrees the marker's draw origin is the cut box's
\* lower-left corner plus the user offset with each negative component taken
\* as 0, with or without bleed, for the barcode image and the text fallback.
C12_OriginIsCutLLPlusClampedOffset ==
    (MarkerDrawn /\ ret.art.rotDeg = 0) =>
        /\ ret.marker.x = CutLowerLeft.x + Max({0, pt(call.it.inArtBarcodeX)})
        /\ ret.marker.y = CutLowerLeft.y + Max({0, pt(call.it.inArtBarcodeY)})

\* a text marker drawn at 0 degrees on a shifted artwork with bleed, one
\* offset positive and one negative
C12_Witness ==
    /\ MarkerDrawn
    /\ ret.art.rotDeg = 0
    /\ ret.marker.kind = "text"
    /\ call.it.bleedWidthInches > call.it.cutWidthInches
    /\ call.it.imageShiftX # 0
    /\ call.it.inArtBarcodeX > 0
    /\ call.it.inArtBarcodeY < 0

\* the sheet-space rectangle covered by a w x h draw at origin (x, y) turned
\* by rot (0 or 180) about that origin
FootprintOf(d, rot) ==
    IF rot = 180 THEN [xL |-> d.x - d.w, xR |-> d.x, yB |-> d.y - d.h, yT |-> d.y]
    ELSE [xL |-> d.x, xR |-> d.x + d.w, yB |-> d.y, yT |-> d.y + d.h]

\* relative to the cut-box centre, the footprint at 0 degrees of a w x h
\* draw whose lower-left corner is (dx, dy) from the cut box's lower-left
AtZeroFromCentre(dx, dy, w, h) ==
    LET xL == dx - pt(call.it.cutWidthInches) \div 2
        yB == dy - pt(call.it.cutHeightInches) \div 2
    IN  [xL |-> xL, xR |-> xL + w, yB |-> yB, yT |-> yB + h]

\* a rectangle about the origin, turned by 180 degrees
HalfTurn(b) == [xL |-> -b.xR, xR |-> -b.xL, yB |-> -b.yT, yT |-> -b.yB]

\* a rectangle moved to the centre of the placed artwork
FromArtCentre(b) ==
    [xL |-> ArtCentre.x + b.xL, xR |-> ArtCentre.x + b.xR,
     yB |-> ArtCentre.y + b.yB, yT |-> ArtCentre.y + b.yT]

MarkerOffsetX == Max({0, pt(call.it.inArtBarcodeX)})
MarkerOffsetY == Max({0, pt(call.it.inArtBarcodeY)})

\* C13: for a placement rotated by 180 degrees (front or back sheet, any
\* image shift) the marker's footprint on the sheet, and that of the order
\* number under it, is the footprint it has at 0 degrees turned by 180
\* degrees about the cut-box centre of the placed artwork.
C13_MarkerTurnsWithArtwork ==
    (MarkerDrawn /\ ret.art.rotDeg = 180) =>
        /\ FootprintOf(ret.marker, ret.marker.rotate)
             = FromArtCentre(HalfTurn(AtZeroFromCentre(MarkerOffsetX, MarkerOffsetY,
                                                       ret.marker.w, ret.marker.h)))
        /\ ret.marker.label.drawn =>
             FootprintOf(ret.marker.label, ret.marker.rotate)
               = FromArtCentre(HalfTurn(AtZeroFromCentre(
                    MarkerOffsetX + (ret.marker.w - ret.marker.label.w) \div 2,
                    MarkerOffsetY - Pts(2) - ret.marker.label.h,
                    ret.marker.label.w, ret.marker.label.h)))

\* a barcode image with its order number, drawn on a back sheet on a
\* shifted artwork with bleed that is turned by 180 degrees
C13_Witness ==
    /\ MarkerDrawn
    /\ ret.art.rotDeg = 180
    /\ ret.flip
    /\ ret.marker.kind = "image"
    /\ ret.marker.label.drawn
    /\ call.it.imageShiftX # 0
    /\ call.it.bleedWidthInches > call.it.cutWidthInches
    /\ call.it.inArtBarcodeX > 0

(* ------------------------ claims on page ranges -------------------------- *)

PagesParsed == call.fn = "parsePageRanges" /\ ret.done

\* C20: each of "3-", "3,", "[3,]" and "3-end" selects exactly the pages
\* 3..pageCount, and each of "-5", ",5" and "[,5]" selects exactly the pages
\* 1..min(5, pageCount).
C20_OpenEndedStringRanges ==
    PagesParsed =>
        /\ call.raw \in OpenToEndTexts => ret.out = 3..call.pageCount
        /\ call.raw \in OpenFromStartTexts => ret.out = 1..Min({5, call.pageCount})

\* the six documented forms other than "-5" select what the comment says
C20_OpenEndedExceptDashFive ==
    (PagesParsed /\ call.raw # <<"-", "5">>) =>
        /\ call.raw \in OpenToEndTexts => ret.out = 3..call.pageCount
        /\ call.raw \in OpenFromStartTexts => ret.out = 1..Min({5, call.pageCount})

\* "-5" is read by JSON.parse as the number -5, which addNum ignores
C20_DashFiveSelectsNothing ==
    (PagesParsed /\ call.raw = <<"-", "5">>) => ret.out = {}

C20_Witness ==
    /\ PagesParsed
    /\ call.raw = <<"-", "5">>
    /\ call.pageCount >= 5
    /\ ret.out = {}

\* C21: every page number selected by parsePageRanges and every page number
\* returned by computeKeptPages is in 1..pageCount, for every pageRanges
\* text and either pageMode, and the kept list is strictly ascending.
C21_PagesWithinDocument ==
    PagesParsed =>
        /\ ret.out \subseteq 1..call.pageCount
        /\ \A i \in DOMAIN ret.kept : ret.kept[i] \in 1..call.pageCount
        /\ \A i \in DOMAIN ret.kept : i > 1 => ret.kept[i - 1] < ret.kept[i]

\* what does hold: the kept list is strictly ascending and never goes past
\* the last page, and with pageMode remove it stays within 1..pageCount
C21_AscendingAndRemoveWithinDocument ==
    PagesParsed =>
        /\ \A i \in DOMAIN ret.kept : ret.kept[i] <= call.pageCount
        /\ \A i \in DOMAIN ret.kept : i > 1 => ret.kept[i - 1] < ret.kept[i]
        /\ pageModeLower(call.pageMode) = "remove" =>
               \A i \in DOMAIN ret.kept : ret.kept[i] \in 1..call.pageCount

\* the JSON tuple [[0,0]] with pageMode keep hands page 0 to page copying
C21_Witness ==
    /\ PagesParsed
    /\ call.raw = <<"[", "[", "0", ",", "0", "]", "]">>
    /\ call.pageMode = "keep"
    /\ ret.kept = <<0, 1>>

\* the JSON number 0.5 selects page 0
C21_FractionWitness ==
    /\ PagesParsed
    /\ call.raw = <<"0", ".", "5">>
    /\ ret.out = {0}

(* ----------------------- claims on the planned grid ---------------------- *)

PlanCalled == call.fn = "planLayout" /\ ret # Pending

PlanCellW == Max({call.orderItems[i].cutWidthInches : i \in itemIdxs(call.orderItems)})
PlanCellH == Max({call.orderItems[i].cutHeightInches : i \in itemIdxs(call.orderItems)})
PlanGapH == Max({call.orderItems[i].impositionMarginHorizontal : i \in itemIdxs(call.orderItems)})
PlanGapV == Max({call.orderItems[i].impositionMarginVertical : i \in itemIdxs(call.orderItems)})

\* floor((availW + gapH) / (cellW + gapH)) with availW = sheetW - 2 * 0.125
FloorColsMax == (call.sheetWIn - 2 * 4 + PlanGapH) \div (PlanCellW + PlanGapH)
FloorRowsMax == (call.sheetHIn - 2 * 4 + PlanGapV) \div (PlanCellH + PlanGapV)

GridHoldsRequired ==
    /\ PlanCalled
    /\ PlanCellW > 0
    /\ PlanCellH > 0
    /\ FloorColsMax * FloorRowsMax >= PlanRequired

PlanOfOne(w, h, cut, gap, n) ==
    /\ PlanCalled
    /\ call.sheetWIn = w
    /\ call.sheetHIn = h
    /\ Len(call.orderItems) = 1
    /\ PlanCellW = cut
    /\ PlanCellH = cut
    /\ PlanGapH = gap
    /\ PlanGapV = gap
    /\ call.requiredCountOverride = n

\* C22: when colsMax * rowsMax >= required, planLayout returns a layout with
\* cols = min(colsMax, required) and rows = ceil(required / cols) <= rowsMax:
\* the decrement never fires and the failure after the loop is never reached.
\* A 13x19 sheet with 2x2 cells, no gap and 10 required gives cols 6, rows 2,
\* waste 2; a 19x13 sheet gives cols 9, rows 2, waste 8.
C22_ColsIsMinOfColsMaxAndRequired ==
    /\ GridHoldsRequired =>
          /\ ret.layout.ok
          /\ ret.layout.cols = Min({FloorColsMax, PlanRequired})
          /\ ret.layout.rows = Ceil(PlanRequired, ret.layout.cols)
          /\ ret.layout.rows <= FloorRowsMax
    /\ PlanOfOne(Inch(13), Inch(19), Inch(2), 0, 10) =>
          /\ ret.layout.ok
          /\ ret.layout.cols = 6 /\ ret.layout.rows = 2 /\ ret.layout.waste = 2
    /\ PlanOfOne(Inch(19), Inch(13), Inch(2), 0, 10) =>
          /\ ret.layout.ok
          /\ ret.layout.cols = 9 /\ ret.layout.rows = 2 /\ ret.layout.waste = 8

\* a grid wider than required is cut to colsMax columns and needs a second row
C22_Witness ==
    /\ GridHoldsRequired
    /\ FloorColsMax < PlanRequired
    /\ ret.layout.ok
    /\ ret.layout.cols = FloorColsMax
    /\ ret.layout.rows > 1

\* the first example of the claim
C22_ExampleWitness ==
    /\ PlanOfOne(Inch(13), Inch(19), Inch(2), 0, 10)
    /\ ret.layout.cols = 6

(* --------------------- claims on the gutter-bug side --------------------- *)

BugWant == toLowerCase(JsString(call.it.bugPosition))

\* a request that names no side: Inside, Outside, or anything else
BugAxisRequest ==
    /\ Returned("drawGutterBug")
    /\ call.it.includeGutterBug
    /\ BugWant \notin Sides

AxisOf(side) == IF side \in {"left", "right"} THEN "h" ELSE "v"

AxisSides(axis) == IF axis = "h" THEN {"left", "right"} ELSE {"bottom", "top"}

OppositeSide(side) ==
    CASE side = "left" -> "right" [] side = "right" -> "left"
      [] side = "bottom" -> "top" [] side = "top" -> "bottom"

AxisMaxGap(axis) == Max({BugGap(s) : s \in AxisSides(axis)})

AxisUsable(axis) == AxisMaxGap(axis) >= pt(BUG_THICKNESS_IN)

\* 0: less than the strip thickness, 1: thickness only, 2: thickness + standoff
RoomLevel(side) ==
    IF BugGap(side) >= pt(BUG_THICKNESS_IN) + pt(BUG_STANDOFF_IN) THEN 2
    ELSE IF BugGap(side) >= pt(BUG_THICKNESS_IN) THEN 1
    ELSE 0

Abs(x) == IF x < 0 THEN 0 - x ELSE x

\* twice the distance from the art edge on that side to the sheet centre
OffCentre(side) ==
    CASE side = "left" -> Abs(2 * BugBox.xL - pt(call.layout.sheetWIn))
      [] side = "right" -> Abs(2 * BugBox.xR - pt(call.layout.sheetWIn))
      [] side = "bottom" -> Abs(2 * BugBox.yB - pt(call.layout.sheetHIn))
      [] side = "top" -> Abs(2 * BugBox.yT - pt(call.layout.sheetHIn))

\* the part of the claim on axes and standoff room
AxisAndRoomPreference(strip) ==
    /\ strip.drawn <=> (AxisUsable("h") \/ AxisUsable("v"))
    /\ strip.drawn =>
          /\ strip.side \in Sides
          /\ AxisUsable(AxisOf(strip.side))
          /\ \A a \in {"h", "v"} : AxisMaxGap(AxisOf(strip.side)) >= AxisMaxGap(a)
          /\ RoomLevel(strip.side) >= RoomLevel(OppositeSide(strip.side))

\* C23 (as stated): for a request that names no side, an axis is usable iff
\* its larger side gap is >= the strip thickness; nothing is returned iff no
\* axis is usable; the side returned is on the usable axis with the larger
\* max gap; a side with room for thickness + standoff is preferred over one
\* with room for the thickness only; and, where that preference does not
\* decide, Inside returns the side of the axis nearer the sheet centre and
\* Outside the side farther from it.
C23_InsideNearerOutsideFarther ==
    BugAxisRequest =>
        LET strip == ret.strip
        IN  /\ AxisAndRoomPreference(strip)
            /\ (strip.drawn /\ ~(RoomLevel(strip.side) = 2 /\ RoomLevel(OppositeSide(strip.side)) = 1)) =>
                  /\ BugWant = "inside" => OffCentre(strip.side) <= OffCentre(OppositeSide(strip.side))
                  /\ BugWant = "outside" => OffCentre(strip.side) >= OffCentre(OppositeSide(strip.side))

\* C23 (amended): as above, but Inside and Outside choose only between sides
\* with the same room: when the opposite side of the chosen axis has less
\* room than the side returned (less than the thickness, or the thickness
\* only against thickness + standoff), the side with more room is returned
\* whichever of the two is nearer the sheet centre.
C23_InsideNearerAmongSidesWithRoom ==
    BugAxisRequest =>
        LET strip == ret.strip
        IN  /\ AxisAndRoomPreference(strip)
            /\ (strip.drawn /\ RoomLevel(strip.side) = RoomLevel(OppositeSide(strip.side))) =>
                  /\ BugWant = "inside" => OffCentre(strip.side) <= OffCentre(OppositeSide(strip.side))
                  /\ BugWant = "outside" => OffCentre(strip.side) >= OffCentre(OppositeSide(strip.side))

\* an Inside request with equal room on both sides of the chosen axis,
\* answered with the side strictly nearer the sheet centre
C23_Witness ==
    /\ BugAxisRequest
    /\ BugWant = "inside"
    /\ ret.strip.drawn
    /\ RoomLevel(ret.strip.side) = RoomLevel(OppositeSide(ret.strip.side))
    /\ OffCentre(ret.strip.side) < OffCentre(OppositeSide(ret.strip.side))

\* an Inside request answered with the side farther from the sheet centre,
\* because the nearer side has less than the strip thickness
C23_FartherSideWitness ==
    /\ BugAxisRequest
    /\ BugWant = "inside"
    /\ ret.strip.drawn
    /\ RoomLevel(ret.strip.side) = 1
    /\ RoomLevel(OppositeSide(ret.strip.side)) = 0
    /\ OffCentre(ret.strip.side) > OffCentre(OppositeSide(ret.strip.side))

(* ---------------------- claims on the corner ticks ----------------------- *)

CropDraws == {d \in AllDraws : d.layer = "crop"}

Corners == {"topLeft", "topRight", "bottomLeft", "bottomRight"}

\* the tick drawn upwards or downwards from a corner
VerticalTick(d, corner) ==
    IF corner \in {"topLeft", "topRight"} THEN d.ticks.topLen ELSE d.ticks.bottomLen

\* the tick drawn to the left or to the right from a corner
HorizontalTick(d, corner) ==
    IF corner \in {"topLeft", "bottomLeft"} THEN d.ticks.leftLen ELSE d.ticks.rightLen

\* the cell is in the first / last row on the side of the corner
OnOuterRow(d, corner) ==
    IF corner \in {"topLeft", "topRight"} THEN d.r = layout.rows - 1 ELSE d.r = 0

\* the cell is in the first / last column on the side of the corner
OnOuterColumn(d, corner) ==
    IF corner \in {"topLeft", "bottomLeft"} THEN d.c = 0 ELSE d.c = layout.cols - 1

\* 1/8": the perimeter length;  at most 1/32": an interior length
IsPerimeterLen(len) == len = pt(4)
IsInteriorLen(len) == len >= 0 /\ len <= pt(1)

\* C25 (as stated): at each corner of each cut box both ticks have the
\* perimeter length (1/8") if the corner lies on the grid's outer boundary
\* (the cell is in the first/last column or the first/last row on a side
\* touching that corner), and otherwise both have the interior length.
C25_BothTicksByCorner ==
    \A d \in CropDraws : \A k \in Corners :
        IF OnOuterRow(d, k) \/ OnOuterColumn(d, k)
        THEN IsPerimeterLen(VerticalTick(d, k)) /\ IsPerimeterLen(HorizontalTick(d, k))
        ELSE IsInteriorLen(VerticalTick(d, k)) /\ IsInteriorLen(HorizontalTick(d, k))

\* C25 (amended): each tick is sized by the side it points away from: the
\* vertical tick at a corner has the perimeter length (1/8") iff the cell is
\* in the first/last row on that side, the horizontal tick iff the cell is
\* in the first/last column on that side, and otherwise the tick has the
\* interior length; at a corner that is on the outer boundary along one
\* side only, one tick has the perimeter length and the other the interior
\* length.
C25_EachTickBySideItLeaves ==
    \A d \in CropDraws : \A k \in Corners :
        /\ IF OnOuterRow(d, k) THEN IsPerimeterLen(VerticalTick(d, k))
           ELSE IsInteriorLen(VerticalTick(d, k))
        /\ IF OnOuterColumn(d, k) THEN IsPerimeterLen(HorizontalTick(d, k))
           ELSE IsInteriorLen(HorizontalTick(d, k))

\* a corner on the outer row but not on the outer column, with a perimeter
\* tick and an interior tick, and a corner with two interior ticks
C25_Witness ==
    /\ \E d \in CropDraws : \E k \in Corners :
          /\ OnOuterRow(d, k) /\ ~OnOuterColumn(d, k)
          /\ IsPerimeterLen(VerticalTick(d, k)) /\ IsInteriorLen(HorizontalTick(d, k))
    /\ \E d \in CropDraws : \E k \in Corners :
          /\ ~OnOuterRow(d, k) /\ ~OnOuterColumn(d, k)
          /\ IsInteriorLen(VerticalTick(d, k)) /\ IsInteriorLen(HorizontalTick(d, k))

(* -------------------- claims on the gutter-bug strip --------------------- *)

StripDrawn == Returned("drawGutterBug") /\ ret.strip.drawn

\* the side of the strip is a side of the grid
OnBoundarySide(side) ==
    CASE side = "left" -> call.c = 0
      [] side = "right" -> call.c = call.layout.cols - 1
      [] side = "bottom" -> call.r = 0
      [] side = "top" -> call.r = call.layout.rows - 1

StripInSheet(strip) ==
    /\ strip.bx >= 0
    /\ strip.bx + strip.bw <= pt(call.layout.sheetWIn)
    /\ strip.by >= 0
    /\ strip.by + strip.bh <= pt(call.layout.sheetHIn)

\* the edge, facing this cell, of the cut box of the neighbouring cell
NeighbourCutEdge(side) ==
    CASE side = "left" -> cellCenterX(call.layout, call.c - 1) + pt(call.it.cutWidthInches) \div 2
      [] side = "right" -> cellCenterX(call.layout, call.c + 1) - pt(call.it.cutWidthInches) \div 2
      [] side = "bottom" -> cellCenterY(call.layout, call.r - 1) + pt(call.it.cutHeightInches) \div 2
      [] side = "top" -> cellCenterY(call.layout, call.r + 1) - pt(call.it.cutHeightInches) \div 2

\* the strip lies between the art edge of this cell and the neighbour's cut box
StripInGutter(strip) ==
    CASE strip.side = "left" ->
            strip.bx >= NeighbourCutEdge("left") /\ strip.bx + strip.bw <= BugBox.xL
      [] strip.side = "right" ->
            strip.bx >= BugBox.xR /\ strip.bx + strip.bw <= NeighbourCutEdge("right")
      [] strip.side = "bottom" ->
            strip.by >= NeighbourCutEdge("bottom") /\ strip.by + strip.bh <= BugBox.yB
      [] strip.side = "top" ->
            strip.by >= BugBox.yT /\ strip.by + strip.bh <= NeighbourCutEdge("top")

HasBleed == placeSize(call.it).placeW > pt(call.it.cutWidthInches)

\* C24: every strip drawn lies inside the free gutter on its side: its
\* standoff is min(0.125", available gap - strip thickness) >= 0, on a
\* boundary side the strip lies within the sheet, and on an interior side it
\* lies between this cell's placed art edge and the neighbouring cell's cut
\* box, for items with or without bleed larger than cut.
C24_StripInsideFreeGutter ==
    StripDrawn =>
        LET strip == ret.strip
        IN  /\ strip.standOffPt = Min({pt(4), BugGap(strip.side) - pt(4)})
            /\ strip.standOffPt >= 0
            /\ IF OnBoundarySide(strip.side) THEN StripInSheet(strip)
               ELSE StripInGutter(strip)

\* what holds with bleed too: the standoff, and the strip within the sheet
C24_StandoffAndSheet ==
    StripDrawn =>
        /\ ret.strip.standOffPt = Min({pt(4), BugGap(ret.strip.side) - pt(4)})
        /\ ret.strip.standOffPt >= 0
        /\ StripInSheet(ret.strip)
        /\ (~OnBoundarySide(ret.strip.side) /\ ~HasBleed) => StripInGutter(ret.strip)

\* a strip on an interior side of an item with bleed that reaches into the
\* neighbouring cell's cut box
C24_Witness ==
    /\ StripDrawn
    /\ HasBleed
    /\ ret.strip.side = "right"
    /\ ~OnBoundarySide("right")
    /\ ret.strip.bx + ret.strip.bw > NeighbourCutEdge("right")

(* ------------------ claims on the size of the in-art marker -------------- *)

MarkerAtZeroDegrees ==
    /\ MarkerDrawn
    /\ ret.art.rotDeg = 0
    /\ call.it.inArtBarcodeX >= 0
    /\ call.it.inArtBarcodeY >= 0

MarkerWithinCut ==
    /\ ret.marker.x + ret.marker.w <= CutLowerLeft.x + pt(call.it.cutWidthInches)
    /\ ret.marker.y + ret.marker.h <= CutLowerLeft.y + pt(call.it.cutHeightInches)

\* C26: at 0 degrees, for every non-negative user offset and every cut size,
\* drawOrigin.x + markerWidth <= cutLowerLeft.x + cutW and
\* drawOrigin.y + markerHeight <= cutLowerLeft.y + cutH.
C26_MarkerWithinRemainingCut == MarkerAtZeroDegrees => MarkerWithinCut

\* what holds: a barcode image up to 400 px wide stays within the cut area
\* when at least 4 pt (0.01 of its width) remain past the offset
C26_ImageWithinCutWhenRoomRemains ==
    ( /\ MarkerAtZeroDegrees
      /\ ret.marker.kind = "image"
      /\ call.img.width <= 400
      /\ pt(call.it.cutWidthInches) - pt(call.it.inArtBarcodeX) >= Pts(4)
      /\ pt(call.it.cutHeightInches) - pt(call.it.inArtBarcodeY) >= Pts(4) ) => MarkerWithinCut

\* a barcode image of 400 x 100 px whose offset is the whole cut width: it
\* is drawn 4 pt wide, entirely past the right edge of the cut box
C26_Witness ==
    /\ MarkerAtZeroDegrees
    /\ ret.marker.kind = "image"
    /\ call.img.width = 400
    /\ pt(call.it.inArtBarcodeX) = pt(call.it.cutWidthInches)
    /\ ret.marker.w = Pts(4)
    /\ ret.marker.x = CutLowerLeft.x + pt(call.it.cutWidthInches)

(* -------------------- claims on what outDoc embeds ---------------------- *)

PdfKeys == {"pdf:" \o ToString(payload.orderItems[i].id) : i \in 1..Len(payload.orderItems)}
FontKeys == {embedFonts[i] : i \in 1..Len(embedFonts)}
EmbeddedAt(key) == {k \in 1..Len(embedded) : embedded[k] = key}
PagesEmbedded == pc \in {"cover", "bugs", "crops", "art", "save"} \/ pages # <<>>

\* the draws of the job that ask barcodeCache for key
DrawsAsking(key) ==
    {<<i, k>> \in UNION {{i} \X (1..Len(pages[i].draws)) : i \in 1..Len(pages)} :
        barcodeCacheKey(payload, pages[i].draws[k]) = key}
KeysAsked ==
    {barcodeCacheKey(payload, pages[i].draws[k]) :
        <<i, k>> \in UNION {{i} \X (1..Len(pages[i].draws)) : i \in 1..Len(pages)}} \ {"none"}

\* C27: nothing is embedded twice in one job.  Each distinct item id has its
\* pages embedded exactly once, before any page exists and before any
\* barcode image; every art draw uses an item whose pages are embedded; and
\* each barcode key a draw asks for is embedded exactly once when bwip-js
\* works and never otherwise.
C27_NoResourceEmbeddedTwice ==
    /\ \A i, j \in 1..Len(embedded) : embedded[i] = embedded[j] => i = j
    /\ ~PagesEmbedded => embedded = <<>>
    /\ PagesEmbedded =>
          /\ \A key \in PdfKeys : Cardinality(EmbeddedAt(key)) = 1
          /\ \A i, j \in 1..Len(embedded) :
                embedded[i] \in PdfKeys /\ embedded[j] \notin PdfKeys \cup FontKeys => i < j
          /\ \A key \in KeysAsked :
                Cardinality(EmbeddedAt(key)) = IF bwipjs = "working" THEN 1 ELSE 0
          /\ {embedded[k] : k \in 1..Len(embedded)} = PdfKeys \cup FontKeys \cup
                (IF bwipjs = "working" THEN KeysAsked ELSE {})

\* a finished drawing run with bwip-js working in which the same item id came
\* twice in the payload and one barcode key was asked for by several draws
C27_Witness ==
    /\ pc = "save"
    /\ bwipjs = "working"
    /\ Len(payload.orderItems) >= 2
    /\ payload.orderItems[1].id = payload.orderItems[2].id
    /\ \E key \in KeysAsked : Cardinality(DrawsAsking(key)) >= 2 /\ Cardinality(EmbeddedAt(key)) = 1
    /\ Cardinality(KeysAsked) >= 2

(* ------------- claims on the default gutter-bug position ---------------- *)

\* the strip drawGutterBug gives the cell of the call when the item's
\* bugPosition is pos and everything else is as in the call
StripWithPosition(pos) ==
    LET it == [call.it EXCEPT !.bugPosition = pos]
        sz == placeSize(it)
    IN  drawGutterBug(it, call.layout, call.r, call.c, sz.placeW, sz.placeH,
                      pt(call.layout.sheetWIn), pt(call.layout.sheetHIn))

SameSide(s1, s2) == s1.drawn = s2.drawn /\ (s1.drawn => s1.side = s2.side)

BugWithoutPosition ==
    /\ Returned("drawGutterBug")
    /\ call.it.includeGutterBug
    /\ call.it.bugPosition = Absent

\* C28 (as stated): an item with includeGutterBug and no bugPosition field
\* gets, in every cell of every layout, the side the same item gets with
\* bugPosition "Inside".
C28_AbsentPositionIsInside ==
    BugWithoutPosition => SameSide(ret.strip, StripWithPosition("Inside"))

\* what the code does instead: String(undefined) is "undefined", which is
\* neither empty nor "inside", so the item is treated as with "Outside";
\* only the empty string falls back to Inside
C28_AbsentPositionIsOutside ==
    /\ BugWithoutPosition => SameSide(ret.strip, StripWithPosition("Outside"))
    /\ (Returned("drawGutterBug") /\ call.it.includeGutterBug /\ call.it.bugPosition = "")
          => SameSide(ret.strip, StripWithPosition("Inside"))

\* a cell where the absent position and Inside give different sides
C28_Witness ==
    /\ BugWithoutPosition
    /\ ret.strip.drawn
    /\ StripWithPosition("Inside").drawn
    /\ ret.strip.side # StripWithPosition("Inside").side

(* ------------- claims on EvenPages in a two-sided job ------------------- *)

EvenPagesItem(it) == it.artRotation # Absent /\ toLowerCase(it.artRotation) = "evenpages"

\* the artwork draws of page i
ArtDrawsOn(i) == {pages[i].draws[j] : j \in {k \in DOMAIN pages[i].draws : pages[i].draws[k].layer = "art"}}

\* C29: in a job where some item has back inks, every artwork of an
\* EvenPages item is drawn unrotated on every production sheet (the 180 of
\* the odd page index and the 180 of the back sheet cancel), and every
\* artwork on any page is drawn at 0 or 180 degrees.
C29_EvenPagesDuplexUnrotated ==
    \A i \in DOMAIN pages : \A d \in ArtDrawsOn(i) :
        /\ d.art.rotDeg \in {0, 180}
        /\ (/\ pages[i].kind = "production"
            /\ anyBackInksOf(payload)
            /\ EvenPagesItem(payload.orderItems[d.itemIdx + 1])) => d.art.rotDeg = 0

\* a back sheet (odd index, positions flipped) holding the artwork of an
\* EvenPages item, whose own rotation there is 180, next to a sheet of the
\* job where another artwork is drawn at 180
C29_Witness ==
    /\ pc = "save"
    /\ anyBackInksOf(payload)
    /\ \E i \in ProductionPages : \E d \in ArtDrawsOn(i) :
          /\ pages[i].index % 2 = 1
          /\ pages[i].flip
          /\ EvenPagesItem(payload.orderItems[d.itemIdx + 1])
          /\ computeArtRotationDegrees(payload.orderItems[d.itemIdx + 1], d.r, d.c, pages[i].index) = 180
          /\ d.art.rotDeg = 0
    /\ \E i \in ProductionPages : \E d \in ArtDrawsOn(i) : d.art.rotDeg = 180

(* ---------------- openaiscript jobArrived: the request ------------------ *)

\* what the body of the response can be to the 'end' handler: text that
\* JSON.parse rejects, the JSON null, an object with an error (with or
\* without a message), an object with or without an output_text item
ResponseBodies ==
    {[parses |-> FALSE, value |-> Absent, message |-> Absent, outputText |-> Absent],
     [parses |-> TRUE, value |-> "null", message |-> Absent, outputText |-> Absent],
     [parses |-> TRUE, value |-> "error", message |-> "quota", outputText |-> Absent],
     [parses |-> TRUE, value |-> "error", message |-> Absent, outputText |-> Absent],
     [parses |-> TRUE, value |-> "output", message |-> Absent, outputText |-> "answer"],
     [parses |-> TRUE, value |-> "output", message |-> Absent, outputText |-> Absent]}

\* messages of the errors the socket can raise by itself
NetErrors == {"ECONNRESET", "ENOTFOUND"}

\* how an awaited job call ends
Settlements == {"resolved", "rejected"}

\* the job has arrived at the script and nothing was done yet
JobArrived ==
    [socket |-> "none", started |-> FALSE, fname |-> Absent, contentItems |-> 0,
     inputs |-> 0, onEnd |-> "idle", onError |-> "idle", onTimeout |-> "idle",
     errorEvent |-> Absent, promise |-> "none", messages |-> <<>>,
     content |-> Absent, rejections |-> 0]

\* the flow element's properties as getVal reads them ("" when not set)
Settings ==
    [apiKey : {"", "sk"}, userMsg : {"", "Summarise"}, systemMsg : {"", "You are terse"},
     filePattern : {"", "*.pdf", "*.txt"}]

\* what the incoming path is: a file, a job folder with its listing, or
\* a path fs.statSync throws on
IncomingPaths ==
    {[stat |-> "file", files |-> <<"a.pdf">>], [stat |-> "file", files |-> <<"b.txt">>],
     [stat |-> "throws", files |-> <<>>],
     [stat |-> "directory", files |-> <<>>], [stat |-> "directory", files |-> <<"b.txt">>],
     [stat |-> "directory", files |-> <<"b.txt", "a.pdf">>]}

\* for each private data key asked for, whether getPrivateDataValue gives a value
PrivateDataValues == {<<>>, <<TRUE>>, <<FALSE>>, <<TRUE, FALSE>>, <<TRUE, TRUE>>}

\* path.extname(name).toLowerCase()
extname(name) == IF name = "a.pdf" THEN ".pdf" ELSE ".txt"

\* matchesPattern: an empty pattern matches every name
matchesPattern(filename, pattern) ==
    IF pattern = "" THEN TRUE ELSE pattern = "*" \o extname(filename)

\* the file taken from a job folder: the first PDF, else the first file
\* matching the pattern; Absent when there is none
RECURSIVE findFile(_, _, _, _)
findFile(i, files, filePattern, foundFile) ==
    IF i > Len(files) THEN foundFile
    ELSE IF extname(files[i]) = ".pdf" THEN files[i]
    ELSE IF foundFile = Absent /\ matchesPattern(files[i], filePattern)
         THEN findFile(i + 1, files, filePattern, files[i])
    ELSE findFile(i + 1, files, filePattern, foundFile)

\* the request after req.write(payload); req.end(): the socket is open, no
\* callback has run, the promise jobArrived returned is pending
RequestSent(fname, contentItems, inputs) ==
    [JobArrived EXCEPT !.socket = "open", !.started = TRUE, !.promise = "pending",
                       !.fname = fname, !.contentItems = contentItems, !.inputs = inputs]

\* jobArrived returns early, after job.fail(message) or job.sendToSingle
returnEarly(name, message) ==
    /\ https' = [JobArrived EXCEPT !.started = TRUE,
                                   !.messages = IF name = "fail" THEN <<message>> ELSE <<>>]
    /\ calls' = <<name>>

InitOpenAI ==
    /\ https = JobArrived
    /\ calls = <<>>
    /\ payload = <<>>
    /\ pc = "idle"
    /\ layout = NoLayout
    /\ placements = <<>>
    /\ pages = <<>>
    /\ p = 0
    /\ assets = <<>>
    /\ bwipjs = "absent"
    /\ embedded = <<>>
    /\ call = [fn |-> "none"]
    /\ ret = Pending

notHttps == <<call, ret, payload, pc, layout, placements, pages, p, assets, bwipjs, embedded>>

\* jobArrived up to the request: the settings, the incoming file, the
\* pattern, the content array; then https.request, req.write, req.end
SendRequest ==
    /\ ~https.started
    /\ \E set \in Settings, in \in IncomingPaths, readable \in BOOLEAN,
          privateData \in PrivateDataValues :
          LET foundFile == IF in.stat = "directory"
                           THEN findFile(1, in.files, set.filePattern, Absent)
                           ELSE in.files[1]
              added == Len(SelectSeq(privateData, LAMBDA v : v))
          IN  IF set.apiKey = "" THEN returnEarly("fail", "Missing API key")
              ELSE IF set.userMsg = "" THEN returnEarly("fail", "Missing message")
              ELSE IF in.stat = "throws" THEN returnEarly("fail", "Cannot access file")
              ELSE IF foundFile = Absent THEN returnEarly("fail", "No file found in job folder")
              ELSE IF ~matchesPattern(foundFile, set.filePattern)
                   THEN returnEarly("sendToSingle", "")
              ELSE IF ~readable THEN returnEarly("fail", "File read error")
              ELSE /\ https' = RequestSent(foundFile, 1 + added + 1,
                                           IF set.systemMsg = "" THEN 1 ELSE 2)
                   /\ UNCHANGED calls
    /\ UNCHANGED notHttps

\* resolve() / reject(e): only the first call settles the promise
settle(h, how) == IF h.promise = "pending" THEN [h EXCEPT !.promise = how] ELSE h

\* await job.fail(message), up to the await: the message the job fails with
jobFail(h, message) == [h EXCEPT !.messages = Append(@, message)]

\* a job call that was awaited has rejected
rejection(h) == [h EXCEPT !.rejections = @ + 1]

\* res.on('end', ...), up to its first await.  The response has ended, so
\* the socket is released and its timeout listener removed.
ResponseEnd ==
    /\ https.socket = "open"
    /\ https.onEnd = "idle"
    /\ \E body \in ResponseBodies :
          LET h == [https EXCEPT !.socket = "released"]
          IN  IF ~body.parses
              THEN /\ https' = [jobFail(h, "Invalid JSON from OpenAI") EXCEPT !.onEnd = "awaitFail"]
                   /\ calls' = Append(calls, "fail")
              ELSE IF body.value = "null"
              THEN /\ https' = [jobFail(h, "Error: TypeError") EXCEPT !.onEnd = "awaitFailInCatch"]
                   /\ calls' = Append(calls, "fail")
              ELSE IF body.value = "error"
              THEN /\ https' = [jobFail(h, "OpenAI: " \o (IF body.message = Absent THEN "Error"
                                                          ELSE body.message))
                                  EXCEPT !.onEnd = "awaitFail"]
                   /\ calls' = Append(calls, "fail")
              ELSE /\ https' = [h EXCEPT !.onEnd = "awaitWrite",
                                         !.content = IF body.outputText = Absent THEN "body"
                                                     ELSE body.outputText]
                   /\ UNCHANGED calls
    /\ UNCHANGED notHttps

\* writeOutputDataset has answered: job.fail('Write failed') or
\* job.sendToSingle(inPath)
WriteReturned ==
    /\ https.onEnd = "awaitWrite"
    /\ \E writeSuccess \in BOOLEAN :
          IF ~writeSuccess
          THEN /\ https' = [jobFail(https, "Write failed") EXCEPT !.onEnd = "awaitFail"]
               /\ calls' = Append(calls, "fail")
          ELSE /\ https' = [https EXCEPT !.onEnd = "awaitSend"]
               /\ calls' = Append(calls, "sendToSingle")
    /\ UNCHANGED notHttps

\* the job.fail awaited inside the try block has settled: reject(...) and
\* return, or the catch block: job.fail('Error: ' + e.message)
EndFailSettled ==
    /\ https.onEnd = "awaitFail"
    /\ \E how \in Settlements :
          IF how = "resolved"
          THEN /\ https' = [settle(https, "rejected") EXCEPT !.onEnd = "done"]
               /\ UNCHANGED calls
          ELSE /\ https' = [jobFail(rejection(https), "Error: job.fail") EXCEPT !.onEnd = "awaitFailInCatch"]
               /\ calls' = Append(calls, "fail")
    /\ UNCHANGED notHttps

\* job.sendToSingle has settled: resolve(), or the catch block
EndSendSettled ==
    /\ https.onEnd = "awaitSend"
    /\ \E how \in Settlements :
          IF how = "resolved"
          THEN /\ https' = [settle(https, "resolved") EXCEPT !.onEnd = "done"]
               /\ UNCHANGED calls
          ELSE /\ https' = [jobFail(rejection(https), "Error: job.sendToSingle") EXCEPT !.onEnd = "awaitFailInCatch"]
               /\ calls' = Append(calls, "fail")
    /\ UNCHANGED notHttps

\* the job.fail of the catch block has settled: reject(e), or the handler's
\* own promise rejects
EndCatchSettled ==
    /\ https.onEnd = "awaitFailInCatch"
    /\ \E how \in Settlements :
          https' = IF how = "resolved" THEN [settle(https, "rejected") EXCEPT !.onEnd = "done"]
                   ELSE [rejection(https) EXCEPT !.onEnd = "done"]
    /\ UNCHANGED calls
    /\ UNCHANGED notHttps

\* req.on('error', ...), up to its await
onError(h, e) == [jobFail(h, "Request failed: " \o e) EXCEPT !.onError = "awaitFail"]

\* the socket fails before the response has ended: 'error' is emitted
RequestError ==
    /\ https.socket = "open"
    /\ https.onError = "idle"
    /\ \E e \in NetErrors : https' = onError([https EXCEPT !.socket = "destroyed"], e)
    /\ calls' = Append(calls, "fail")
    /\ UNCHANGED notHttps

\* req.destroy(err) has destroyed the socket with err: 'error' is emitted
\* with it on the next tick
DestroyEmitsError ==
    /\ https.errorEvent # Absent
    /\ https.onError = "idle"
    /\ https' = onError([https EXCEPT !.errorEvent = Absent], https.errorEvent)
    /\ calls' = Append(calls, "fail")
    /\ UNCHANGED notHttps

\* the job.fail of the 'error' handler has settled: reject(e)
ErrorFailSettled ==
    /\ https.onError = "awaitFail"
    /\ \E how \in Settlements :
          https' = IF how = "resolved" THEN [settle(https, "rejected") EXCEPT !.onError = "done"]
                   ELSE [rejection(https) EXCEPT !.onError = "done"]
    /\ UNCHANGED calls
    /\ UNCHANGED notHttps

\* req.setTimeout(180000, ...): the socket was idle for 180 s before the
\* response ended.  req.destroy(new Error('timeout')), then job.fail('Timeout')
Timeout ==
    /\ https.socket = "open"
    /\ https.onTimeout = "idle"
    /\ https' = [jobFail([https EXCEPT !.socket = "destroyed", !.errorEvent = "timeout"],
                         "Timeout")
                   EXCEPT !.onTimeout = "awaitFail"]
    /\ calls' = Append(calls, "fail")
    /\ UNCHANGED notHttps

\* the job.fail of the timeout callback has settled: reject(new Error('timeout'))
TimeoutFailSettled ==
    /\ https.onTimeout = "awaitFail"
    /\ https.errorEvent = Absent
    /\ \E how \in Settlements :
          https' = IF how = "resolved" THEN [settle(https, "rejected") EXCEPT !.onTimeout = "done"]
                   ELSE [rejection(https) EXCEPT !.onTimeout = "done"]
    /\ UNCHANGED calls
    /\ UNCHANGED notHttps

NextOpenAI ==
    \/ SendRequest
    \/ ResponseEnd
    \/ WriteReturned
    \/ EndFailSettled
    \/ EndSendSettled
    \/ EndCatchSettled
    \/ RequestError
    \/ DestroyEmitsError
    \/ ErrorFailSettled
    \/ Timeout
    \/ TimeoutFailSettled

SpecOpenAI == InitOpenAI /\ [][NextOpenAI]_vars

(* --------------- claims on the request of openaiscript ------------------ *)

TerminalCalls == {k \in 1..Len(calls) : calls[k] \in {"fail", "sendToSingle"}}

RequestMade == https.socket # "none"

\* C30 (as stated): once the request is sent, the response-end, error and
\* timeout callbacks together call job.fail or job.sendToSingle at most once
\* in one run of the job, in every interleaving.
C30_AtMostOneTerminalAction ==
    RequestMade => Cardinality(TerminalCalls) <= 1

\* what holds instead: while no awaited job call rejects, a second terminal
\* call is made only by the 'error' handler after the timeout callback has
\* destroyed the request, and there is never a third
C30_SecondCallOnlyAfterTimeout ==
    (RequestMade /\ https.rejections = 0) =>
        /\ Cardinality(TerminalCalls) <= 2
        /\ Cardinality(TerminalCalls) = 2 =>
              /\ https.onTimeout # "idle"
              /\ https.messages = <<"Timeout", "Request failed: timeout">>
        /\ https.onEnd # "idle" => Cardinality(TerminalCalls) <= 1

\* the timeout callback and the 'error' handler it set off have both failed
\* the job, no job call having rejected
C30_Witness ==
    /\ RequestMade
    /\ https.rejections = 0
    /\ https.onTimeout = "done"
    /\ https.onError = "done"
    /\ calls = <<"fail", "fail">>
    /\ https.messages = <<"Timeout", "Request failed: timeout">>

====
